---- MODULE Spec2Model ----
(***************************************************************************)
(* Model of the plugin managers of luxfi/config: PluginPackageManager      *)
(* (plugin_manager.go: the on-disk package store, the JSON registry, the   *)
(* current/<vmid> activation symlinks, the migration from a legacy         *)
(* directory), DefaultPluginManager, ResolvePluginDir and VMID (loader.go, *)
(* plugins.go), and of the package's global configuration values.          *)
(*                                                                         *)
(* The filesystem is a map from paths to nodes.  A path is a sequence of   *)
(* components; an absolute path starts with the component "/".  Symbolic   *)
(* links are followed at the last component of a path only: the managers   *)
(* never create a symlink that is used as a directory of another path.     *)
(* Org, name, version, identifier and binary names are plain path          *)
(* components: none holds a separator, none is "latest", "manifest.json"   *)
(* or a name the manager reserves.  A registry.json or manifest.json is a  *)
(* document the manager wrote, or bytes that are no JSON.                  *)
(*                                                                         *)
(* Specifications:                                                         *)
(*   Spec        one PluginPackageManager; every os.* call succeeds or     *)
(*               fails as the filesystem state dictates                    *)
(*   SpecOpen    managers constructed again and again on a base directory  *)
(*               whose registry.json the environment removes or damages    *)
(*   SpecFault   Install under cancelled contexts and failing reads,       *)
(*               writes and chmods                                         *)
(*   SpecLegacy  a DefaultPluginManager on the legacy directory (copies    *)
(*               disturbed by cancellation and I/O faults) and a           *)
(*               PluginPackageManager that migrates from it                *)
(*   SpecVMID    calls of VMID                                             *)
(*   SpecGlobals calls of Global, SetGlobal and of the global GPU          *)
(*               configuration accessors                                   *)
(*   SpecTwo     two managers on one base directory, their calls           *)
(*               interleaved                                               *)
(*   SpecSteps   Activate, Install and Link observed by a reader between   *)
(*               the removal and the creation of current/<vmid>            *)
(*   SpecManifest a manager whose manifests the environment removes or     *)
(*               damages                                                   *)
(*   SpecBlocked a manager whose registry.json or current/<vmid> the       *)
(*               environment replaces by a directory                       *)
(***************************************************************************)
EXTENDS Integers, Sequences, FiniteSets, TLC

VARIABLES fs, registry, clock, last, globals, registryB, pc

vars == <<fs, registry, clock, last, globals, registryB, pc>>

\* The state outside the first manager and the filesystem: the package's
\* global variables, the registry a second manager holds in memory, and
\* the position of a manager call that has not returned yet
others == <<globals, registryB, pc>>

\* Number of manager calls (and source rewrites) explored in one behaviour.
MaxOps == 3

----------------------------------------------------------------------------
\* Constants of plugin_manager.go

packagesDir == "packages"

activeDir == "current"

registryFile == "registry.json"

\* The base directory the manager is constructed on.
baseDir == <<"/", "plugins">>

----------------------------------------------------------------------------
\* Input universe

Orgs == {"luxfi"}

Names == {"evm", "tvm"}

Versions == {"v1", "v2"}

VMIDs == {"I", "J"}

\* Source binaries outside the base directory (absolute paths).
Sources == {<<"/", "work", "s1">>, <<"/", "work", "s2">>}

\* File contents: byte strings of different lengths.
Contents == {<<7>>, <<8, 9>>}

\* Entry names of the legacy plugin directory, in the order os.ReadDir
\* returns them (sorted by name): identifiers of nine bytes, two of them
\* with the same first eight, and a name of three bytes
LegacyNames == <<"Avmid0001", "Avmid0002", "evm", "zvmid0003">>

\* Identifiers passed to the DefaultPluginManager
PluginIDs == {"Avmid0001", "evm"}

\* Bytes one Read of the copy loop returns at most.  The code reads into a
\* buffer of 32*1024 bytes; the model's binaries hold one or two bytes, so
\* the buffer is scaled to make a copy take several reads.
BufSize == 1

----------------------------------------------------------------------------
\* Go maps: a function whose domain is the set of keys present

EmptyMap == [k \in {} |-> 0]

MapPut(m, k, v) == [x \in (DOMAIN m) \cup {k} |-> IF x = k THEN v ELSE m[x]]

MapDel(m, k) == [x \in (DOMAIN m) \ {k} |-> m[x]]

\* m[k] of a map of slices: the nil slice when the key is absent
MapGet(m, k) == IF k \in DOMAIN m THEN m[k] ELSE <<>>

----------------------------------------------------------------------------
\* path/filepath

Join(p, q) == p \o q

Dir(p) == SubSeq(p, 1, Len(p) - 1)

Base(p) == p[Len(p)]

IsAbs(p) == Len(p) > 0 /\ p[1] = "/"

IsPrefix(p, q) == Len(p) <= Len(q) /\ SubSeq(q, 1, Len(p)) = p

----------------------------------------------------------------------------
\* Filesystem nodes and the os.* calls the manager uses

DirNode == [kind |-> "dir", data |-> <<>>, target |-> <<>>, mode |-> "0755"]

FileNode(d, m) == [kind |-> "file", data |-> d, target |-> <<>>, mode |-> m]

LinkNode(t) == [kind |-> "symlink", data |-> <<>>, target |-> t, mode |-> "0777"]

FsPut(f, p, n) == [x \in (DOMAIN f) \cup {p} |-> IF x = p THEN n ELSE f[x]]

\* os.Lstat succeeds: the path names a node (a symlink is not followed)
Lstat(f, p) == p \in DOMAIN f

\* A symlink's target as an absolute path (relative targets are relative
\* to the directory holding the link)
LinkTarget(f, p) == IF IsAbs(f[p].target) THEN f[p].target ELSE Join(Dir(p), f[p].target)

\* The path reached from p by following symlinks; <<>> after too many hops
RECURSIVE Follow(_, _, _)
Follow(f, p, hops) ==
    IF p \notin DOMAIN f THEN p
    ELSE IF f[p].kind # "symlink" THEN p
    ELSE IF hops = 0 THEN <<>>
    ELSE Follow(f, LinkTarget(f, p), hops - 1)

Resolve(f, p) == Follow(f, p, Cardinality(DOMAIN f))

\* os.Stat succeeds: the path resolves to a node
Stat(f, p) == Resolve(f, p) \in DOMAIN f

\* FileInfo.Size() of os.Stat
StatSize(f, p) == Len(f[Resolve(f, p)].data)

IsDir(f, p) == p \in DOMAIN f /\ f[p].kind = "dir"

\* os.ReadFile succeeds: the path resolves to a regular file
CanRead(f, p) == Stat(f, p) /\ f[Resolve(f, p)].kind = "file"

ReadFile(f, p) == f[Resolve(f, p)].data

\* os.WriteFile(p, d, perm): opens O_WRONLY|O_CREATE|O_TRUNC, following a
\* symlink at p; an existing file keeps its mode
CanWrite(f, p) ==
    LET r == Resolve(f, p)
    IN  /\ r # <<>>
        /\ IsDir(f, Dir(r))
        /\ (r \in DOMAIN f => f[r].kind = "file")

WriteFile(f, p, d, perm) ==
    LET r == Resolve(f, p)
    IN  FsPut(f, r, FileNode(d, IF r \in DOMAIN f THEN f[r].mode ELSE perm))

\* os.Chmod follows symlinks
Chmod(f, p, perm) ==
    LET r == Resolve(f, p)
    IN  [f EXCEPT ![r].mode = perm]

\* os.MkdirAll: every missing prefix becomes a directory
MkdirAll(f, p) ==
    LET new == {SubSeq(p, 1, i) : i \in 1..Len(p)} \ DOMAIN f
    IN  [x \in (DOMAIN f) \cup new |-> IF x \in new THEN DirNode ELSE f[x]]

HasChildren(f, p) == \E q \in DOMAIN f : q # p /\ IsPrefix(p, q)

\* os.Remove succeeds: the node exists and is not a non-empty directory
CanRemove(f, p) == p \in DOMAIN f /\ ~(f[p].kind = "dir" /\ HasChildren(f, p))

Remove(f, p) == [x \in (DOMAIN f) \ {p} |-> f[x]]

\* os.RemoveAll: the node and everything below it; absent is no error
RemoveAll(f, p) == [x \in {q \in DOMAIN f : ~IsPrefix(p, q)} |-> f[x]]

\* os.Symlink(target, p) succeeds: p does not exist and its directory does
CanSymlink(f, p) == p \notin DOMAIN f /\ IsDir(f, Dir(p))

Symlink(f, target, p) == FsPut(f, p, LinkNode(target))

\* Names of the entries of a directory (os.ReadDir)
ReadDir(f, p) == {Base(q) : q \in {x \in DOMAIN f : Len(x) = Len(p) + 1 /\ IsPrefix(p, x)}}

----------------------------------------------------------------------------
\* filepath.Join(p, elems...): empty elements are ignored

JoinElems(p, elems) == p \o SelectSeq(elems, LAMBDA e : e # "")

\* PluginPackageManager.PackagePath
PackagePath(org, name, version) == JoinElems(baseDir, <<packagesDir, org, name, version>>)

\* PluginPackageManager.ActivePath
ActivePath(vmid) == JoinElems(baseDir, <<activeDir, vmid>>)

\* PluginPackageManager.GetActiveDir
GetActiveDir == JoinElems(baseDir, <<activeDir>>)

RegistryPath == JoinElems(baseDir, <<registryFile>>)

ManifestPath(org, name, version) == JoinElems(PackagePath(org, name, version), <<"manifest.json">>)

LatestPath(org, name) == JoinElems(baseDir, <<packagesDir, org, name, "latest">>)

\* fmt.Sprintf("%s/%s", org, name)
PkgKey(org, name) == org \o "/" \o name

\* fmt.Sprintf("%s/%s@%s", org, name, version)
PkgRef(org, name, version) == org \o "/" \o name \o "@" \o version

----------------------------------------------------------------------------
\* PluginManifest and its JSON form (encoding/json with the struct's tags)

Manifest(org, name, version, vmid, binary) ==
    [Name |-> name, Org |-> org, Version |-> version, VMID |-> vmid,
     VMName |-> "", Aliases |-> <<>>, Binary |-> binary, Description |-> "",
     Repository |-> "", InstalledAt |-> 0, Size |-> 0]

\* json.MarshalIndent(manifest): fields tagged omitempty are left out when
\* they hold their zero value
MarshalManifest(m) ==
    LET keys == {"name", "org", "version", "vmid", "binary", "installed_at"}
                \cup (IF m.VMName # "" THEN {"vm_name"} ELSE {})
                \cup (IF m.Aliases # <<>> THEN {"aliases"} ELSE {})
                \cup (IF m.Description # "" THEN {"description"} ELSE {})
                \cup (IF m.Repository # "" THEN {"repository"} ELSE {})
                \cup (IF m.Size # 0 THEN {"size"} ELSE {})
        val(k) == CASE k = "name" -> m.Name
                    [] k = "org" -> m.Org
                    [] k = "version" -> m.Version
                    [] k = "vmid" -> m.VMID
                    [] k = "vm_name" -> m.VMName
                    [] k = "aliases" -> m.Aliases
                    [] k = "binary" -> m.Binary
                    [] k = "description" -> m.Description
                    [] k = "repository" -> m.Repository
                    [] k = "installed_at" -> m.InstalledAt
                    [] k = "size" -> m.Size
    IN  [k \in keys |-> val(k)]

JsonField(j, k, zero) == IF k \in DOMAIN j THEN j[k] ELSE zero

\* json.Unmarshal(data, &PluginManifest{}): absent keys leave the zero value
UnmarshalManifest(j) ==
    [Name |-> JsonField(j, "name", ""), Org |-> JsonField(j, "org", ""),
     Version |-> JsonField(j, "version", ""), VMID |-> JsonField(j, "vmid", ""),
     VMName |-> JsonField(j, "vm_name", ""), Aliases |-> JsonField(j, "aliases", <<>>),
     Binary |-> JsonField(j, "binary", ""), Description |-> JsonField(j, "description", ""),
     Repository |-> JsonField(j, "repository", ""),
     InstalledAt |-> JsonField(j, "installed_at", 0), Size |-> JsonField(j, "size", 0)]

\* json.Unmarshal fails on data that is no JSON text: the byte strings of
\* the model (the contents of binaries, the empty file) are none; the
\* documents the manager writes are
JsonValid(data) == data \notin (Contents \cup {<<>>})

\* json.MarshalIndent(pm.registry)
MarshalRegistry(reg) ==
    [plugins |-> reg.Plugins, active |-> reg.Active, updated_at |-> reg.UpdatedAt]

\* json.Unmarshal(data, pm.registry)
UnmarshalRegistry(j) ==
    [Plugins |-> j.plugins, Active |-> j.active, UpdatedAt |-> j.updated_at]

----------------------------------------------------------------------------
\* Helper functions of plugin_manager.go

\* Mutant of contains: the membership test always fails
contains_Never(slice, item) == FALSE

contains(slice, item) == \E i \in 1..Len(slice) : slice[i] = item

removeString(slice, item) == SelectSeq(slice, LAMBDA s : s # item)

\* An I/O fault the operating system injects into one call of the manager:
\* kind names the system call that fails ("none": no fault), n the number
\* of bytes a failing write has stored when it fails
NoFault == [kind |-> "none", n |-> 0]

\* The first n elements of a byte string
Prefix(d, n) == SubSeq(d, 1, IF n < Len(d) THEN n ELSE Len(d))

\* copyFile(src, dst) under a fault: os.ReadFile, then os.WriteFile(dst,
\* data, 0644), which creates or truncates dst before it writes
copyFileIO(f, src, dst, fault) ==
    IF ~CanRead(f, src) \/ fault.kind = "read" THEN [fs |-> f, err |-> "read"]
    ELSE IF ~CanWrite(f, dst) THEN [fs |-> f, err |-> "write"]
    ELSE IF fault.kind = "write"
    THEN [fs |-> WriteFile(f, dst, Prefix(ReadFile(f, src), fault.n), "0644"), err |-> "write"]
    ELSE [fs |-> WriteFile(f, dst, ReadFile(f, src), "0644"), err |-> "nil"]

\* copyFile(src, dst): os.ReadFile then os.WriteFile(dst, data, 0644)
copyFile(f, src, dst) == copyFileIO(f, src, dst, NoFault)

\* The result of a manager call: the filesystem, the in-memory registry
\* and the returned error ("nil" for success)
Ret(f, reg, err) == [fs |-> f, reg |-> reg, err |-> err]

\* The nil *PluginPackageManager
NoManager == [nil |-> TRUE]

\* PluginPackageManager.ensureDirectories
ensureDirectories(f) ==
    MkdirAll(MkdirAll(MkdirAll(f, baseDir), JoinElems(baseDir, <<packagesDir>>)),
             JoinElems(baseDir, <<activeDir>>))

\* Mutant of loadRegistry: a registry file that does not parse is taken
\* for an absent one
loadRegistry_EmptyOnParseError(f, now) ==
    IF ~Lstat(f, RegistryPath) \/ (CanRead(f, RegistryPath) /\ ~JsonValid(ReadFile(f, RegistryPath)))
    THEN [err |-> "nil", reg |-> [Plugins |-> EmptyMap, Active |-> EmptyMap, UpdatedAt |-> now]]
    ELSE IF ~CanRead(f, RegistryPath)
    THEN [err |-> "failed to read registry", reg |-> [Plugins |-> EmptyMap, Active |-> EmptyMap, UpdatedAt |-> 0]]
    ELSE [err |-> "nil", reg |-> UnmarshalRegistry(ReadFile(f, RegistryPath))]

\* PluginPackageManager.loadRegistry: "nil" or an error, and the registry
loadRegistry(f, now) ==
    IF ~Lstat(f, RegistryPath)
    THEN [err |-> "nil", reg |-> [Plugins |-> EmptyMap, Active |-> EmptyMap, UpdatedAt |-> now]]
    ELSE IF ~CanRead(f, RegistryPath)
    THEN [err |-> "failed to read registry", reg |-> [Plugins |-> EmptyMap, Active |-> EmptyMap, UpdatedAt |-> 0]]
    ELSE IF ~JsonValid(ReadFile(f, RegistryPath))
    THEN [err |-> "failed to parse registry", reg |-> [Plugins |-> EmptyMap, Active |-> EmptyMap, UpdatedAt |-> 0]]
    ELSE [err |-> "nil", reg |-> UnmarshalRegistry(ReadFile(f, RegistryPath))]

\* Mutant of saveRegistry: the registry is stamped but not written
saveRegistry_NoWrite(f, reg, now) ==
    Ret(f, [reg EXCEPT !.UpdatedAt = now], "nil")

\* Mutant of saveRegistry: the mappings registry.json holds are merged
\* into the registry before it is written
saveRegistry_Merge(f, reg, now) ==
    LET disk == IF CanRead(f, RegistryPath) /\ JsonValid(ReadFile(f, RegistryPath))
                THEN UnmarshalRegistry(ReadFile(f, RegistryPath))
                ELSE reg
        merge(a, b) == [k \in (DOMAIN a) \cup (DOMAIN b) |-> IF k \in DOMAIN b THEN b[k] ELSE a[k]]
        reg1 == [Plugins |-> merge(disk.Plugins, reg.Plugins), Active |-> merge(disk.Active, reg.Active),
                 UpdatedAt |-> now]
    IN  IF ~CanWrite(f, RegistryPath) THEN Ret(f, reg1, "failed to write registry")
        ELSE Ret(WriteFile(f, RegistryPath, MarshalRegistry(reg1), "0644"), reg1, "nil")

\* PluginPackageManager.saveRegistry
saveRegistry(f, reg, now) ==
    LET reg1 == [reg EXCEPT !.UpdatedAt = now]
    IN  IF ~CanWrite(f, RegistryPath) THEN Ret(f, reg1, "failed to write registry")
        ELSE Ret(WriteFile(f, RegistryPath, MarshalRegistry(reg1), "0644"), reg1, "nil")

\* PluginPackageManager.GetManifest
GetManifest(f, org, name, version) ==
    LET path == ManifestPath(org, name, version)
    IN  IF ~CanRead(f, path)
        THEN [err |-> "failed to read manifest", manifest |-> Manifest("", "", "", "", "")]
        ELSE IF ~JsonValid(ReadFile(f, path))
        THEN [err |-> "failed to parse manifest", manifest |-> Manifest("", "", "", "", "")]
        ELSE [err |-> "nil", manifest |-> UnmarshalManifest(ReadFile(f, path))]

----------------------------------------------------------------------------
\* The manager's operations.  Each takes the filesystem f, the in-memory
\* registry reg and the reading now of time.Now(), and returns Ret(...).

\* Mutant of ValidateManifest: the identifier check is missing
ValidateManifest_NoVMID(manifest) ==
    IF manifest.Org = "" \/ manifest.Name = "" \/ manifest.Version = ""
    THEN "manifest must have org, name, and version"
    ELSE "nil"

\* The manifest validation that opens Install and Link: "nil" or the error
ValidateManifest(manifest) ==
    IF manifest.Org = "" \/ manifest.Name = "" \/ manifest.Version = ""
    THEN "manifest must have org, name, and version"
    ELSE IF manifest.VMID = "" THEN "manifest must have vmid"
    ELSE "nil"

\* Mutant of Activate: an existing current/<vmid> entry is not removed
\* before the symlink is created
Activate_NoRemove(f, reg, now, org, name, version) ==
    LET gm == GetManifest(f, org, name, version)
        manifest == gm.manifest
        binaryName == IF manifest.Binary = "" THEN name ELSE manifest.Binary
        binaryPath == JoinElems(PackagePath(org, name, version), <<binaryName>>)
        vmidPath == ActivePath(manifest.VMID)
        reg1 == [reg EXCEPT !.Active = MapPut(@, manifest.VMID, PkgRef(org, name, version))]
    IN  IF gm.err # "nil" THEN Ret(f, reg, "failed to load manifest")
        ELSE IF ~CanSymlink(f, vmidPath) THEN Ret(f, reg, "failed to create VMID symlink")
        ELSE saveRegistry(Symlink(f, binaryPath, vmidPath), reg1, now)

\* PluginPackageManager.Activate
Activate(f, reg, now, org, name, version) ==
    LET gm == GetManifest(f, org, name, version)
        manifest == gm.manifest
        binaryName == IF manifest.Binary = "" THEN name ELSE manifest.Binary
        binaryPath == JoinElems(PackagePath(org, name, version), <<binaryName>>)
        vmidPath == ActivePath(manifest.VMID)
        present == Lstat(f, vmidPath)
        f1 == IF present THEN Remove(f, vmidPath) ELSE f
        reg1 == [reg EXCEPT !.Active = MapPut(@, manifest.VMID, PkgRef(org, name, version))]
    IN  IF gm.err # "nil" THEN Ret(f, reg, "failed to load manifest")
        ELSE IF present /\ ~CanRemove(f, vmidPath) THEN Ret(f, reg, "failed to remove existing symlink")
        ELSE IF ~CanSymlink(f1, vmidPath) THEN Ret(f1, reg, "failed to create VMID symlink")
        ELSE saveRegistry(Symlink(f1, binaryPath, vmidPath), reg1, now)

\* Mutant of InstallLatest: an existing "latest" symlink is not removed
InstallLatest_KeepExisting(f, reg, now, manifest) ==
    LET latestPath == LatestPath(manifest.Org, manifest.Name)
        f2 == IF CanSymlink(f, latestPath) THEN Symlink(f, <<manifest.Version>>, latestPath) ELSE f
    IN  saveRegistry(f2, reg, now)

\* Install, lines 246-254: replace the "latest" symlink (best effort), save
InstallLatest(f, reg, now, manifest) ==
    LET latestPath == LatestPath(manifest.Org, manifest.Name)
        f1 == IF CanRemove(f, latestPath) THEN Remove(f, latestPath) ELSE f
        f2 == IF CanSymlink(f1, latestPath) THEN Symlink(f1, <<manifest.Version>>, latestPath) ELSE f1
    IN  saveRegistry(f2, reg, now)

\* Install, lines 234-244: record the version, then activate it
InstallRegister(f, reg, now, manifest) ==
    LET pkgKey == PkgKey(manifest.Org, manifest.Name)
        versions == MapGet(reg.Plugins, pkgKey)
        reg1 == IF ~contains(versions, manifest.Version)
                THEN [reg EXCEPT !.Plugins = MapPut(@, pkgKey, Append(versions, manifest.Version))]
                ELSE reg
        act == Activate(f, reg1, now, manifest.Org, manifest.Name, manifest.Version)
    IN  IF act.err # "nil" THEN Ret(act.fs, act.reg, "failed to activate plugin")
        ELSE InstallLatest(act.fs, act.reg, now, manifest)

\* PluginPackageManager.Install(ctx, manifest, binaryPath) under a fault.
\* The function never reads ctx.
InstallIO(f, reg, now, ctx, manifest, binaryPath, fault) ==
    LET pkgPath == PackagePath(manifest.Org, manifest.Name, manifest.Version)
        f1 == MkdirAll(f, pkgPath)
        binaryName == IF manifest.Binary = "" THEN manifest.Name ELSE manifest.Binary
        destBinaryPath == JoinElems(pkgPath, <<binaryName>>)
        cp == copyFileIO(f1, binaryPath, destBinaryPath, fault)
        f2 == Chmod(cp.fs, destBinaryPath, "0755")
        m1 == [manifest EXCEPT !.Size = IF Stat(f2, destBinaryPath) THEN StatSize(f2, destBinaryPath) ELSE @,
                               !.InstalledAt = now]
        manifestPath == JoinElems(pkgPath, <<"manifest.json">>)
    IN  IF ValidateManifest(manifest) # "nil" THEN Ret(f, reg, ValidateManifest(manifest))
        ELSE IF cp.err # "nil" THEN Ret(cp.fs, reg, "failed to copy binary")
        ELSE IF fault.kind = "chmod" THEN Ret(cp.fs, reg, "failed to make binary executable")
        ELSE IF ~CanWrite(f2, manifestPath) THEN Ret(f2, reg, "failed to write manifest")
        ELSE InstallRegister(WriteFile(f2, manifestPath, MarshalManifest(m1), "0644"), reg, now, m1)

\* PluginPackageManager.Install with a live context and no fault
Install(f, reg, now, manifest, binaryPath) ==
    InstallIO(f, reg, now, "live", manifest, binaryPath, NoFault)

\* Mutant of LinkRegister: an existing current/<vmid> symlink is kept as
\* it is
LinkRegister_KeepCurrent(f, reg, now, manifest, absBinaryPath) ==
    LET pkgKey == PkgKey(manifest.Org, manifest.Name)
        versions == MapGet(reg.Plugins, pkgKey)
        reg1 == IF ~contains(versions, manifest.Version)
                THEN [reg EXCEPT !.Plugins = MapPut(@, pkgKey, Append(versions, manifest.Version))]
                ELSE reg
        vmidPath == ActivePath(manifest.VMID)
        f2 == IF Lstat(f, vmidPath) THEN f ELSE Symlink(f, absBinaryPath, vmidPath)
        reg2 == [reg1 EXCEPT !.Active = MapPut(@, manifest.VMID,
                                               PkgRef(manifest.Org, manifest.Name, manifest.Version))]
        latestPath == LatestPath(manifest.Org, manifest.Name)
        f3 == IF CanRemove(f2, latestPath) THEN Remove(f2, latestPath) ELSE f2
        f4 == IF CanSymlink(f3, latestPath) THEN Symlink(f3, <<manifest.Version>>, latestPath) ELSE f3
    IN  saveRegistry(f4, reg2, now)

\* Link, lines 315-342: record the version, point current/<vmid> at the
\* source binary, bind the identifier, replace "latest", save
LinkRegister(f, reg, now, manifest, absBinaryPath) ==
    LET pkgKey == PkgKey(manifest.Org, manifest.Name)
        versions == MapGet(reg.Plugins, pkgKey)
        reg1 == IF ~contains(versions, manifest.Version)
                THEN [reg EXCEPT !.Plugins = MapPut(@, pkgKey, Append(versions, manifest.Version))]
                ELSE reg
        vmidPath == ActivePath(manifest.VMID)
        present == Lstat(f, vmidPath)
        f1 == IF present THEN Remove(f, vmidPath) ELSE f
        f2 == Symlink(f1, absBinaryPath, vmidPath)
        reg2 == [reg1 EXCEPT !.Active = MapPut(@, manifest.VMID,
                                               PkgRef(manifest.Org, manifest.Name, manifest.Version))]
        latestPath == LatestPath(manifest.Org, manifest.Name)
        f3 == IF CanRemove(f2, latestPath) THEN Remove(f2, latestPath) ELSE f2
        f4 == IF CanSymlink(f3, latestPath) THEN Symlink(f3, <<manifest.Version>>, latestPath) ELSE f3
    IN  IF present /\ ~CanRemove(f, vmidPath) THEN Ret(f, reg1, "failed to remove existing VMID symlink")
        ELSE IF ~CanSymlink(f1, vmidPath) THEN Ret(f1, reg1, "failed to create VMID symlink")
        ELSE saveRegistry(f4, reg2, now)

\* PluginPackageManager.Link
Link(f, reg, now, manifest, binaryPath) ==
    LET absBinaryPath == binaryPath
        m1 == [manifest EXCEPT !.Size = StatSize(f, absBinaryPath), !.InstalledAt = now]
        pkgPath == PackagePath(manifest.Org, manifest.Name, manifest.Version)
        f1 == MkdirAll(f, pkgPath)
        binaryName == IF manifest.Binary = "" THEN manifest.Name ELSE manifest.Binary
        destBinaryPath == JoinElems(pkgPath, <<binaryName>>)
        present == Lstat(f1, destBinaryPath)
        f2 == IF present THEN Remove(f1, destBinaryPath) ELSE f1
        f3 == Symlink(f2, absBinaryPath, destBinaryPath)
        manifestPath == JoinElems(pkgPath, <<"manifest.json">>)
    IN  IF ValidateManifest(manifest) # "nil" THEN Ret(f, reg, ValidateManifest(manifest))
        ELSE IF ~Stat(f, absBinaryPath) THEN Ret(f, reg, "binary not found")
        ELSE IF present /\ ~CanRemove(f1, destBinaryPath) THEN Ret(f1, reg, "failed to remove existing link")
        ELSE IF ~CanSymlink(f2, destBinaryPath) THEN Ret(f2, reg, "failed to create binary symlink")
        ELSE IF ~CanWrite(f3, manifestPath) THEN Ret(f3, reg, "failed to write manifest")
        ELSE LinkRegister(WriteFile(f3, manifestPath, MarshalManifest(m1), "0644"), reg, now, m1, absBinaryPath)

\* Mutant of Uninstall: a version whose manifest cannot be loaded is
\* refused
Uninstall_RequireManifest(f, reg, now, org, name, version) ==
    LET pkgPath == PackagePath(org, name, version)
        gm == GetManifest(f, org, name, version)
        vmidPath == ActivePath(gm.manifest.VMID)
        f1 == IF gm.manifest.VMID # "" /\ CanRemove(f, vmidPath) THEN Remove(f, vmidPath) ELSE f
        reg1 == IF gm.manifest.VMID # "" THEN [reg EXCEPT !.Active = MapDel(@, gm.manifest.VMID)] ELSE reg
        pkgKey == PkgKey(org, name)
        versions == removeString(MapGet(reg1.Plugins, pkgKey), version)
        reg2 == [reg1 EXCEPT !.Plugins = IF Len(versions) = 0 THEN MapDel(@, pkgKey)
                                         ELSE MapPut(@, pkgKey, versions)]
    IN  IF gm.err # "nil" THEN Ret(f, reg, "failed to load manifest")
        ELSE saveRegistry(RemoveAll(f1, pkgPath), reg2, now)

\* PluginPackageManager.Uninstall
Uninstall(f, reg, now, org, name, version) ==
    LET pkgPath == PackagePath(org, name, version)
        gm == GetManifest(f, org, name, version)
        cleanup == gm.err = "nil" /\ gm.manifest.VMID # ""
        vmidPath == ActivePath(gm.manifest.VMID)
        f1 == IF cleanup /\ CanRemove(f, vmidPath) THEN Remove(f, vmidPath) ELSE f
        reg1 == IF cleanup THEN [reg EXCEPT !.Active = MapDel(@, gm.manifest.VMID)] ELSE reg
        f2 == RemoveAll(f1, pkgPath)
        pkgKey == PkgKey(org, name)
        versions == removeString(MapGet(reg1.Plugins, pkgKey), version)
        reg2 == [reg1 EXCEPT !.Plugins = IF Len(versions) = 0 THEN MapDel(@, pkgKey)
                                         ELSE MapPut(@, pkgKey, versions)]
    IN  saveRegistry(f2, reg2, now)

----------------------------------------------------------------------------
\* Read-only queries

\* The org, name and version strings that occur in registry keys and
\* references: those of the input manifests and those MigrateFromLegacy
\* makes up
OrgTokens == Orgs \cup {"legacy"}

NameTokens ==
    Names \cup {SubSeq(LegacyNames[i], 1, 8) \o "..." :
                    i \in {j \in 1..Len(LegacyNames) : Len(LegacyNames[j]) >= 8}}

VersionTokens == Versions \cup {"v0.0.0"}

\* strings.SplitN(pkgKey, "/", 2): the two parts, or <<pkgKey>> when there
\* is no "/" (org and name tokens of the model hold no "/")
SplitPkgKey(pkgKey) ==
    LET c == {pr \in (OrgTokens \cup {""}) \X (NameTokens \cup {""}) : pr[1] \o "/" \o pr[2] = pkgKey}
    IN  IF c = {} THEN <<pkgKey>> ELSE CHOOSE pr \in c : TRUE

\* pkgRef[:atIdx], pkgRef[atIdx+1:] around strings.LastIndex(pkgRef, "@"),
\* or <<>> when there is no "@" (version tokens of the model hold no "@")
SplitPkgRef(pkgRef) ==
    LET keys == {PkgKey(o, n) : o \in OrgTokens \cup {""}, n \in NameTokens \cup {""}}
        c == {pr \in keys \X (VersionTokens \cup {""}) : pr[1] \o "@" \o pr[2] = pkgRef}
    IN  IF c = {} THEN <<>> ELSE CHOOSE pr \in c : TRUE

\* PluginPackageManager.List: the manifests of the recorded versions that
\* can be loaded (the order of the returned slice follows map iteration)
List(f, reg) ==
    LET entries == {<<k, i>> \in (DOMAIN reg.Plugins) \X (1..4) :
                        /\ i <= Len(reg.Plugins[k])
                        /\ Len(SplitPkgKey(k)) = 2
                        /\ GetManifest(f, SplitPkgKey(k)[1], SplitPkgKey(k)[2], reg.Plugins[k][i]).err = "nil"}
    IN  {GetManifest(f, SplitPkgKey(e[1])[1], SplitPkgKey(e[1])[2], reg.Plugins[e[1]][e[2]]).manifest : e \in entries}

\* PluginPackageManager.ListActive: identifier -> manifest
ListActive(f, reg) ==
    LET ref(vmid) == SplitPkgRef(reg.Active[vmid])
        parts(vmid) == SplitPkgKey(ref(vmid)[1])
        ok == {vmid \in ReadDir(f, GetActiveDir) \cap DOMAIN reg.Active :
                  /\ ref(vmid) # <<>>
                  /\ Len(parts(vmid)) = 2
                  /\ GetManifest(f, parts(vmid)[1], parts(vmid)[2], ref(vmid)[2]).err = "nil"}
    IN  [vmid \in ok |-> GetManifest(f, parts(vmid)[1], parts(vmid)[2], ref(vmid)[2]).manifest]

----------------------------------------------------------------------------
\* DefaultPluginManager (loader.go, plugins.go): a flat directory that
\* holds one binary or symlink per identifier

\* The directory of the DefaultPluginManager
pluginDir == <<"/", "legacy">>

\* DefaultPluginManager.GetPath
GetPath(vmID) == JoinElems(pluginDir, <<vmID>>)

\* DefaultPluginManager.EnsureDir
EnsureDir(f) == MkdirAll(f, pluginDir)

\* os.IsNotExist(err) of os.Stat or os.ReadDir: the path resolves to no
\* node (a symlink loop is another error)
NotExist(f, p) == Resolve(f, p) # <<>> /\ ~Stat(f, p)

\* A context is the number of the poll of ctx.Done() from which the
\* context is cancelled: 1 is cancelled before the call, 0 is never
Cancelled(ctx, i) == ctx # 0 /\ ctx <= i

\* Mutant of removePartial: the destination is left in place
removePartial_Keep(f, destPath) == f

\* os.Remove(destPath) of the copy loop; its error is dropped
removePartial(f, destPath) == IF CanRemove(f, destPath) THEN Remove(f, destPath) ELSE f

\* The copy loop of Install from its i-th round on: poll ctx, Read from
\* the source (data is what the open source file holds), Write to the open
\* destination file dst.  A fault fails the Read or the Write of round
\* fault.n.
RECURSIVE copyLoop(_, _, _, _, _, _, _)
copyLoop(f, destPath, dst, data, i, ctx, fault) ==
    LET off == (i - 1) * BufSize
        left == Len(data) - off
        n == IF left <= 0 THEN 0 ELSE IF left < BufSize THEN left ELSE BufSize
        written == [f EXCEPT ![dst].data = @ \o SubSeq(data, off + 1, off + n)]
    IN  IF Cancelled(ctx, i) THEN [fs |-> removePartial(f, destPath), err |-> "context canceled"]
        ELSE IF fault.kind = "read" /\ fault.n = i
        THEN [fs |-> removePartial(f, destPath), err |-> "failed to read source"]
        ELSE IF n > 0 /\ fault.kind = "write" /\ fault.n = i
        THEN [fs |-> removePartial(f, destPath), err |-> "failed to write plugin"]
        ELSE IF n = 0 THEN [fs |-> f, err |-> "nil"]
        ELSE copyLoop(written, destPath, dst, data, i + 1, ctx, fault)

\* DefaultPluginManager.Install(ctx, source, vmID)
DefaultInstall(f, ctx, source, vmID, fault) ==
    LET f0 == EnsureDir(f)
        destPath == GetPath(vmID)
        dst == Resolve(f0, destPath)
        f1 == WriteFile(f0, destPath, <<>>, "0755")
    IN  IF ~Stat(f0, source) THEN [fs |-> f0, err |-> "source file not found"]
        ELSE IF IsDir(f0, Resolve(f0, source)) THEN [fs |-> f0, err |-> "source is a directory, expected file"]
        ELSE IF ~CanWrite(f0, destPath) THEN [fs |-> f0, err |-> "failed to create plugin file"]
        ELSE copyLoop(f1, destPath, dst, ReadFile(f1, source), 1, ctx, fault)

\* Mutant of DefaultUninstall: the entry is reported removed but kept
DefaultUninstall_Keep(f, vmID) == [fs |-> f, err |-> "nil"]

\* DefaultPluginManager.Uninstall
DefaultUninstall(f, vmID) ==
    LET path == GetPath(vmID)
    IN  IF NotExist(f, path) THEN [fs |-> f, err |-> "nil"]
        ELSE IF ~CanRemove(f, path) THEN [fs |-> f, err |-> "failed to remove plugin"]
        ELSE [fs |-> Remove(f, path), err |-> "nil"]

\* DefaultPluginManager.Exists
DefaultExists(f, vmID) == Stat(f, GetPath(vmID)) /\ ~IsDir(f, Resolve(f, GetPath(vmID)))

\* DefaultPluginManager.Get: the error and the PluginInfo (ModTime left out)
DefaultGet(f, vmID) ==
    LET path == GetPath(vmID)
        info(installed, size) ==
            [VMID |-> vmID, Name |-> vmID, Path |-> path, Installed |-> installed, Size |-> size]
    IN  IF NotExist(f, path) THEN [err |-> "nil", info |-> info(FALSE, 0)]
        ELSE IF ~Stat(f, path) THEN [err |-> "failed to stat plugin", info |-> info(FALSE, 0)]
        ELSE [err |-> "nil", info |-> info(~IsDir(f, Resolve(f, path)), StatSize(f, path))]

\* DefaultPluginManager.List: the error and the PluginInfo of every entry
\* that is no directory (entry.Info() does not follow a symlink; the order
\* of the slice and ModTime are left out)
DefaultList(f, ctx) ==
    LET names == {e \in ReadDir(f, pluginDir) : ~IsDir(f, GetPath(e))}
        size(e) == IF f[GetPath(e)].kind = "symlink" THEN Len(f[GetPath(e)].target)
                   ELSE Len(f[GetPath(e)].data)
    IN  IF NotExist(f, pluginDir) THEN [err |-> "nil", plugins |-> {}]
        ELSE IF ~IsDir(f, Resolve(f, pluginDir)) THEN [err |-> "failed to read plugin directory", plugins |-> {}]
        ELSE IF ReadDir(f, pluginDir) # {} /\ Cancelled(ctx, 1) THEN [err |-> "context canceled", plugins |-> {}]
        ELSE [err |-> "nil",
              plugins |-> {[VMID |-> e, Name |-> e, Path |-> GetPath(e), Installed |-> TRUE, Size |-> size(e)] :
                              e \in names}]

\* ResolvePluginBaseDir: the environment and the global configuration
\* resolve to the base directory the manager is constructed on
ResolvePluginBaseDir == baseDir

\* ResolvePluginDir of loader.go: <base>/current if it is a directory,
\* else the base directory
ResolvePluginDir(f) ==
    LET currentDir == JoinElems(ResolvePluginBaseDir, <<"current">>)
    IN  IF Stat(f, currentDir) /\ IsDir(f, Resolve(f, currentDir)) THEN currentDir
        ELSE ResolvePluginBaseDir

\* ResolvePluginDir of plugins.go: <base>/active if it is a directory,
\* else the base directory
ResolvePluginDirActive(f) ==
    LET activeDirPath == JoinElems(ResolvePluginBaseDir, <<"active">>)
    IN  IF Stat(f, activeDirPath) /\ IsDir(f, Resolve(f, activeDirPath)) THEN activeDirPath
        ELSE ResolvePluginBaseDir

----------------------------------------------------------------------------
\* PluginPackageManager.MigrateFromLegacy

\* The manifest MigrateFromLegacy builds for a symlink entry.  vmid[:8]
\* needs an entry name of at least eight bytes.
LegacyManifest(vmid, target) ==
    Manifest("legacy", SubSeq(vmid, 1, 8) \o "...", "v0.0.0", vmid, Base(target))

\* The loop of MigrateFromLegacy over the entries os.ReadDir returned,
\* from the i-th name on.  A failed Install is reported and skipped;
\* vmid[:8] of a shorter name panics (slice bounds out of range): the call
\* does not return and the process, with its manager, is gone.
RECURSIVE MigrateEntries(_, _, _, _, _, _)
MigrateEntries(f, reg, now, ctx, legacyDir, i) ==
    LET vmid == LegacyNames[i]
        oldPath == JoinElems(legacyDir, <<vmid>>)
        target == f[oldPath].target
        inst == InstallIO(f, reg, now, ctx, LegacyManifest(vmid, target), target, NoFault)
    IN  IF i > Len(LegacyNames) THEN Ret(f, reg, "nil")
        ELSE IF ~Lstat(f, oldPath) \/ f[oldPath].kind # "symlink"
        THEN MigrateEntries(f, reg, now, ctx, legacyDir, i + 1)
        ELSE IF Len(vmid) < 8 THEN Ret(f, NoManager, "panic")
        ELSE MigrateEntries(inst.fs, inst.reg, now, ctx, legacyDir, i + 1)

\* PluginPackageManager.MigrateFromLegacy(ctx, legacyDir)
MigrateFromLegacy(f, reg, now, ctx, legacyDir) ==
    IF NotExist(f, legacyDir) THEN Ret(f, reg, "nil")
    ELSE IF ~IsDir(f, Resolve(f, legacyDir)) THEN Ret(f, reg, "readdir")
    ELSE MigrateEntries(f, reg, now, ctx, legacyDir, 1)

----------------------------------------------------------------------------
\* Package-level variables (loader.go; the GPU configuration)

\* The zero value of GPUConfig
ZeroGPUConfig == [Enabled |-> FALSE, Backend |-> "", DeviceIndex |-> 0, LogLevel |-> ""]

\* The package's variables when the program starts: globalConfig is nil,
\* neither sync.Once has run, the GPU configuration holds its zero value
GlobalsInit ==
    [globalConfig |-> "nil", configOnce |-> FALSE,
     globalGPUConfig |-> ZeroGPUConfig, globalGPUConfigOnce |-> FALSE, globalGPUConfigSet |-> FALSE]

\* Global(): the first call runs configOnce.Do, which stores what
\* loader.Load() returns, or DefaultConfig() when Load fails (loadErr);
\* every call returns globalConfig.  A *LuxConfig is named by where it
\* comes from.
Global(g, loadErr) ==
    LET g1 == IF g.configOnce THEN g
              ELSE [g EXCEPT !.globalConfig = IF loadErr THEN "default" ELSE "loaded",
                             !.configOnce = TRUE]
    IN  [globals |-> g1, ret |-> g1.globalConfig]

\* SetGlobal(cfg)
SetGlobal(g, cfg) == [g EXCEPT !.globalConfig = cfg]

\* DefaultGPUConfig()
DefaultGPUConfig == [Enabled |-> TRUE, Backend |-> "auto", DeviceIndex |-> 0, LogLevel |-> "warn"]

\* GPUConfig.Validate on a build for the operating system goos
\* (runtime.GOOS): "nil" or the error
Validate(c, goos) ==
    IF c.Backend \notin {"auto", "metal", "cuda", "cpu"} THEN "invalid GPU backend"
    ELSE IF c.Backend = "metal" /\ goos # "darwin" THEN "metal backend is only supported on macOS"
    ELSE IF c.Backend = "cuda" /\ goos = "darwin" THEN "cuda backend is not supported on macOS"
    ELSE IF c.DeviceIndex < 0 THEN "GPU device index must be non-negative"
    ELSE IF c.LogLevel \notin {"debug", "info", "warn", "error"} THEN "invalid GPU log level"
    ELSE "nil"

\* SetGlobalGPUConfig(cfg): the function passed to globalGPUConfigOnce.Do
\* runs on the first call only; setErr is nil when it does not run
SetGlobalGPUConfig(g, cfg, goos) ==
    IF g.globalGPUConfigOnce THEN [globals |-> g, err |-> "nil"]
    ELSE IF Validate(cfg, goos) # "nil"
    THEN [globals |-> [g EXCEPT !.globalGPUConfigOnce = TRUE], err |-> Validate(cfg, goos)]
    ELSE [globals |-> [g EXCEPT !.globalGPUConfigOnce = TRUE, !.globalGPUConfig = cfg,
                                !.globalGPUConfigSet = TRUE],
          err |-> "nil"]

\* GetGlobalGPUConfig()
GetGlobalGPUConfig(g) == IF ~g.globalGPUConfigSet THEN DefaultGPUConfig ELSE g.globalGPUConfig

\* No manager call is under way
Idle == [at |-> "idle"]

\* No global has been touched, there is no second manager, no call is
\* under way
OthersInit ==
    /\ globals = GlobalsInit
    /\ registryB = NoManager
    /\ pc = Idle

----------------------------------------------------------------------------
\* State machine: one manager on one base directory

\* Manifests passed to Install and Link
ValidManifests ==
    {Manifest(o, pk[1], pk[2], id, IF pk[1] = "evm" THEN "" ELSE "bin") :
        o \in Orgs, pk \in {<<"evm", "v1">>, <<"evm", "v2">>, <<"tvm", "v1">>}, id \in VMIDs}

InvalidManifests ==
    {Manifest("", "evm", "v1", "I", ""), Manifest("luxfi", "", "v1", "I", ""),
     Manifest("luxfi", "evm", "", "I", ""), Manifest("luxfi", "evm", "v1", "", "")}

ManifestInputs == ValidManifests \cup InvalidManifests

\* (org, name, version) triples passed to Activate and Uninstall
Triples == {<<m.Org, m.Name, m.Version>> : m \in ValidManifests}

NoManifest == Manifest("", "", "", "", "")

NoPath == <<>>

\* NewPluginPackageManager(baseDir) on a filesystem f at time now: the
\* manager's registry, or no manager and the error
NewPluginPackageManager(f, now) ==
    LET f1 == ensureDirectories(f)
        lr == loadRegistry(f1, now)
    IN  Ret(f1, IF lr.err = "nil" THEN lr.reg ELSE NoManager, lr.err)

\* The filesystem before the manager is constructed: the source binary s1
\* exists, s2 does not, the base directory is absent
InitialFs ==
    LET s1 == <<"/", "work", "s1">>
    IN  [p \in {<<"/">>, <<"/", "work">>, s1} |-> IF p = s1 THEN FileNode(<<7>>, "0644") ELSE DirNode]

Init ==
    /\ fs = NewPluginPackageManager(InitialFs, 1).fs
    /\ registry = NewPluginPackageManager(InitialFs, 1).reg
    /\ clock = 1
    /\ last = [op |-> "New", manifest |-> NoManifest, src |-> NoPath, err |-> "nil", again |-> FALSE]
    /\ OthersInit

\* A call ends: its effects, and the record of the call in last (again:
\* the preceding call was the same call and succeeded)
Commit(r, op, manifest, src) ==
    /\ fs' = r.fs
    /\ registry' = r.reg
    /\ clock' = clock + 1
    /\ last' = [op |-> op, manifest |-> manifest, src |-> src, err |-> r.err,
                again |-> (last.op = op /\ last.manifest = manifest /\ last.src = src /\ last.err = "nil")]
    /\ UNCHANGED others

DoInstall ==
    /\ clock <= MaxOps
    /\ \E m \in ManifestInputs, b \in Sources :
           Commit(Install(fs, registry, clock + 1, m, b), "Install", m, b)

DoLink ==
    /\ clock <= MaxOps
    /\ \E m \in ManifestInputs, b \in Sources :
           Commit(Link(fs, registry, clock + 1, m, b), "Link", m, b)

DoActivate ==
    /\ clock <= MaxOps
    /\ \E t \in Triples :
           Commit(Activate(fs, registry, clock + 1, t[1], t[2], t[3]), "Activate",
                  Manifest(t[1], t[2], t[3], "", ""), NoPath)

DoUninstall ==
    /\ clock <= MaxOps
    /\ \E t \in Triples :
           Commit(Uninstall(fs, registry, clock + 1, t[1], t[2], t[3]), "Uninstall",
                  Manifest(t[1], t[2], t[3], "", ""), NoPath)

\* The environment rewrites (or creates) a source binary
WriteSource ==
    /\ clock <= MaxOps
    /\ \E b \in Sources, d \in Contents :
           /\ CanWrite(fs, b)
           /\ Commit(Ret(WriteFile(fs, b, d, "0644"), registry, "nil"), "WriteSource", NoManifest, b)

Next == DoInstall \/ DoLink \/ DoActivate \/ DoUninstall \/ WriteSource

Spec == Init /\ [][Next]_vars

----------------------------------------------------------------------------
\* State machine: managers constructed on a base directory whose
\* registry.json the environment may remove or overwrite between calls

\* A manager has been constructed and is held
Opened == registry # NoManager

\* No manager yet; the base directory is absent or holds no layout
OpenInit ==
    /\ fs \in {InitialFs, MkdirAll(InitialFs, baseDir)}
    /\ registry = NoManager
    /\ clock = 1
    /\ last = [op |-> "Start", manifest |-> NoManifest, src |-> NoPath, err |-> "nil", again |-> FALSE]
    /\ OthersInit

\* NewPluginPackageManager(baseDir): the manager replaces the one held
DoNew ==
    /\ clock <= MaxOps
    /\ Commit(NewPluginPackageManager(fs, clock + 1), "New", NoManifest, NoPath)

OpenInstall == Opened /\ DoInstall

OpenLink == Opened /\ DoLink

OpenActivate == Opened /\ DoActivate

OpenUninstall == Opened /\ DoUninstall

\* The environment overwrites registry.json with bytes that are no JSON
DamageRegistry ==
    /\ clock <= MaxOps
    /\ \E d \in Contents \cup {<<>>} :
           /\ CanWrite(fs, RegistryPath)
           /\ Commit(Ret(WriteFile(fs, RegistryPath, d, "0644"), registry, "nil"),
                     "DamageRegistry", NoManifest, RegistryPath)

\* The environment removes registry.json
RemoveRegistry ==
    /\ clock <= MaxOps
    /\ Lstat(fs, RegistryPath)
    /\ Commit(Ret(Remove(fs, RegistryPath), registry, "nil"), "RemoveRegistry", NoManifest, RegistryPath)

OpenNext ==
    DoNew \/ OpenInstall \/ OpenLink \/ OpenActivate \/ OpenUninstall \/ DamageRegistry \/ RemoveRegistry

SpecOpen == OpenInit /\ [][OpenNext]_vars

----------------------------------------------------------------------------
\* State machine: Install under cancellation and I/O faults

\* The context passed to Install: never cancelled, cancelled before the
\* call, cancelled while the binary is being copied
Contexts == {"live", "cancelled", "cancelled in copy"}

\* The faults of one call: none, os.ReadFile fails, os.WriteFile fails
\* after n bytes, os.Chmod fails
Faults ==
    {NoFault, [kind |-> "read", n |-> 0], [kind |-> "chmod", n |-> 0]}
        \cup {[kind |-> "write", n |-> k] : k \in 0..1}

FaultInstall ==
    /\ clock <= MaxOps
    /\ \E m \in ValidManifests, b \in Sources, c \in Contexts, x \in Faults :
           LET r == InstallIO(fs, registry, clock + 1, c, m, b, x)
           IN  /\ fs' = r.fs
               /\ registry' = r.reg
               /\ clock' = clock + 1
               /\ last' = [op |-> "Install", manifest |-> m, src |-> b, err |-> r.err,
                           again |-> FALSE, ctx |-> c, fault |-> x]
    /\ UNCHANGED others

FaultNext == FaultInstall \/ DoUninstall \/ WriteSource

SpecFault == Init /\ [][FaultNext]_vars

----------------------------------------------------------------------------
\* State machine: a DefaultPluginManager on the legacy plugin directory,
\* and a PluginPackageManager that migrates from it

\* How a copy is disturbed: the context is cancelled from some poll on, or
\* the Read or the Write of some round fails, or nothing happens
CopyPlans ==
    {<<k, NoFault>> : k \in 0..4}
        \cup {<<0, [kind |-> kd, n |-> i]>> : kd \in {"read", "write"}, i \in 1..2}

\* (org, name, version) of the packages MigrateFromLegacy installs
LegacyTriples ==
    {<<"legacy", SubSeq(LegacyNames[i], 1, 8) \o "...", "v0.0.0">> :
        i \in {j \in 1..Len(LegacyNames) : Len(LegacyNames[j]) >= 8}}

\* A call of the DefaultPluginManager ends (existed: Exists(id) held when
\* the call began)
DefaultCommit(r, op, id, src, ctx, fault) ==
    /\ fs' = r.fs
    /\ registry' = registry
    /\ clock' = clock + 1
    /\ last' = [op |-> op, manifest |-> NoManifest, src |-> src, err |-> r.err, again |-> FALSE,
                id |-> id, ctx |-> ctx, fault |-> fault, existed |-> DefaultExists(fs, id)]
    /\ UNCHANGED others

DefaultInstallCall ==
    /\ clock <= MaxOps
    /\ \E id \in PluginIDs, b \in Sources, plan \in CopyPlans :
           DefaultCommit(DefaultInstall(fs, plan[1], b, id, plan[2]), "DefaultInstall", id, b, plan[1], plan[2])

DefaultUninstallCall ==
    /\ clock <= MaxOps
    /\ \E id \in PluginIDs :
           DefaultCommit(DefaultUninstall(fs, id), "DefaultUninstall", id, NoPath, 0, NoFault)

\* The environment places a symlink into the legacy directory (the layout
\* the host's older versions used): ln -s target legacyDir/name
PlaceLegacyLink ==
    /\ clock <= MaxOps
    /\ \E i \in 1..Len(LegacyNames), t \in Sources :
           LET f0 == MkdirAll(fs, pluginDir)
               path == GetPath(LegacyNames[i])
           IN  /\ CanSymlink(f0, path)
               /\ DefaultCommit([fs |-> Symlink(f0, t, path), err |-> "nil"], "PlaceLegacyLink",
                                LegacyNames[i], t, 0, NoFault)

DoMigrate ==
    /\ clock <= MaxOps
    /\ Opened
    /\ Commit(MigrateFromLegacy(fs, registry, clock + 1, "live", pluginDir), "Migrate", NoManifest, pluginDir)

LegacyInstall == Opened /\ DoInstall

LegacyUninstall ==
    /\ clock <= MaxOps
    /\ Opened
    /\ \E t \in Triples \cup LegacyTriples :
           Commit(Uninstall(fs, registry, clock + 1, t[1], t[2], t[3]), "Uninstall",
                  Manifest(t[1], t[2], t[3], "", ""), NoPath)

LegacyNext ==
    \/ DefaultInstallCall
    \/ DefaultUninstallCall
    \/ PlaceLegacyLink
    \/ DoMigrate
    \/ LegacyInstall
    \/ LegacyUninstall
    \/ WriteSource

SpecLegacy == Init /\ [][LegacyNext]_vars

----------------------------------------------------------------------------
\* VMID (loader.go): base58check(sha256(pad32(vmName)))

\* sha256.Sum256 and base58.CheckEncode are library functions: the model
\* keeps them as terms over their arguments (two digests are equal exactly
\* when the hashed blocks are)
sha256Sum256(block) == [sha256 |-> block]

base58CheckEncode(input, version) == [base58check |-> input, version |-> version]

\* Mutant of VMID: the padded buffer grows with the name instead of
\* cutting it at 32 bytes
VMID_NoTruncate(vmName) ==
    LET size == IF Len(vmName) > 32 THEN Len(vmName) ELSE 32
        padded == [i \in 1..size |-> IF i <= Len(vmName) THEN vmName[i] ELSE 0]
    IN  base58CheckEncode(sha256Sum256(padded), 0)

\* VMID(vmName): copy(padded, vmName) copies at most len(padded) bytes
\* into the zeroed buffer of 32 bytes
VMID(vmName) ==
    LET padded == [i \in 1..32 |-> IF i <= Len(vmName) THEN vmName[i] ELSE 0]
    IN  base58CheckEncode(sha256Sum256(padded), 0)

\* VM names as byte strings: lengths around 32, bytes 1 except the last
\* byte and byte 32, which range over 0..2
VMNames ==
    {[i \in 1..n |-> IF i = n THEN b ELSE IF i = 32 THEN c ELSE 1] :
        n \in {0, 1, 31, 32, 33, 34}, b \in 0..2, c \in 0..2}

\* No call of VMID yet
VMIDInit ==
    /\ fs = InitialFs
    /\ registry = NoManager
    /\ clock = 1
    /\ last = [op |-> "Start", name |-> <<>>, id |-> NoManager, prevName |-> <<>>, prevId |-> NoManager]
    /\ OthersInit

\* VMID(name): last keeps this call and the one before it
CallVMID ==
    /\ clock <= MaxOps
    /\ \E name \in VMNames :
           last' = [op |-> "VMID", name |-> name, id |-> VMID(name),
                    prevName |-> last.name, prevId |-> last.id]
    /\ clock' = clock + 1
    /\ UNCHANGED <<fs, registry>>
    /\ UNCHANGED others

VMIDNext == CallVMID

SpecVMID == VMIDInit /\ [][VMIDNext]_vars

----------------------------------------------------------------------------
\* State machine: calls of Global, SetGlobal, SetGlobalGPUConfig and
\* GetGlobalGPUConfig, one after the other

\* The *LuxConfig values callers pass to SetGlobal
ConfigArgs == {"cfgA", "cfgB", "nil"}

\* runtime.GOOS of the build
GOOSes == {"linux", "darwin"}

\* The GPUConfig values callers pass to SetGlobalGPUConfig
GPUConfigArgs ==
    {DefaultGPUConfig,
     [Enabled |-> FALSE, Backend |-> "cpu", DeviceIndex |-> 1, LogLevel |-> "debug"],
     [Enabled |-> TRUE, Backend |-> "metal", DeviceIndex |-> 0, LogLevel |-> "info"],
     [Enabled |-> TRUE, Backend |-> "opencl", DeviceIndex |-> 0, LogLevel |-> "warn"],
     [Enabled |-> TRUE, Backend |-> "auto", DeviceIndex |-> -1, LogLevel |-> "warn"],
     [Enabled |-> TRUE, Backend |-> "auto", DeviceIndex |-> 0, LogLevel |-> "verbose"]}

\* The program starts on one of the builds.  last keeps the call, what it
\* returned, the argument of the latest SetGlobal (set) and the arguments
\* of all SetGlobalGPUConfig calls so far (passed).
GlobalsStart ==
    /\ fs = InitialFs
    /\ registry = NoManager
    /\ clock = 1
    /\ globals = GlobalsInit
    /\ registryB = NoManager
    /\ pc = Idle
    /\ \E os \in GOOSes :
           last = [op |-> "Start", arg |-> "none", ret |-> "none", err |-> "nil",
                   set |-> "none", passed |-> {}, goos |-> os]

GlobalsCommit(g, op, arg, ret, err, set, passed) ==
    /\ globals' = g
    /\ clock' = clock + 1
    /\ last' = [op |-> op, arg |-> arg, ret |-> ret, err |-> err,
                set |-> set, passed |-> passed, goos |-> last.goos]
    /\ UNCHANGED <<fs, registry, registryB, pc>>

CallGlobal ==
    /\ clock <= MaxOps
    /\ \E loadErr \in BOOLEAN :
           LET r == Global(globals, loadErr)
           IN  GlobalsCommit(r.globals, "Global", "none", r.ret, "nil", last.set, last.passed)

CallSetGlobal ==
    /\ clock <= MaxOps
    /\ \E cfg \in ConfigArgs :
           GlobalsCommit(SetGlobal(globals, cfg), "SetGlobal", cfg, "none", "nil", cfg, last.passed)

CallSetGlobalGPUConfig ==
    /\ clock <= MaxOps
    /\ \E cfg \in GPUConfigArgs :
           LET r == SetGlobalGPUConfig(globals, cfg, last.goos)
           IN  GlobalsCommit(r.globals, "SetGlobalGPUConfig", cfg, "none", r.err,
                             last.set, last.passed \cup {cfg})

CallGetGlobalGPUConfig ==
    /\ clock <= MaxOps
    /\ GlobalsCommit(globals, "GetGlobalGPUConfig", "none", GetGlobalGPUConfig(globals), "nil",
                     last.set, last.passed)

GlobalsNext == CallGlobal \/ CallSetGlobal \/ CallSetGlobalGPUConfig \/ CallGetGlobalGPUConfig

SpecGlobals == GlobalsStart /\ [][GlobalsNext]_vars

----------------------------------------------------------------------------
\* State machine: two managers on the same base directory.  Each call
\* runs to its end before the next one starts; nothing makes a manager
\* load registry.json again after its construction.

\* A call of the second manager ends
CommitB(r, op, manifest, src) ==
    /\ fs' = r.fs
    /\ registryB' = r.reg
    /\ clock' = clock + 1
    /\ last' = [op |-> op, manifest |-> manifest, src |-> src, err |-> r.err, again |-> FALSE]
    /\ UNCHANGED <<registry, globals, pc>>

\* NewPluginPackageManager(baseDir) once more: the second manager
DoNewB ==
    /\ clock <= MaxOps
    /\ registryB = NoManager
    /\ CommitB(NewPluginPackageManager(fs, clock + 1), "NewB", NoManifest, NoPath)

DoInstallB ==
    /\ clock <= MaxOps
    /\ registryB # NoManager
    /\ \E m \in ManifestInputs, b \in Sources :
           CommitB(Install(fs, registryB, clock + 1, m, b), "InstallB", m, b)

DoUninstallB ==
    /\ clock <= MaxOps
    /\ registryB # NoManager
    /\ \E t \in Triples :
           CommitB(Uninstall(fs, registryB, clock + 1, t[1], t[2], t[3]), "UninstallB",
                   Manifest(t[1], t[2], t[3], "", ""), NoPath)

TwoNext == DoInstall \/ DoUninstall \/ DoNewB \/ DoInstallB \/ DoUninstallB

SpecTwo == Init /\ [][TwoNext]_vars

----------------------------------------------------------------------------
\* State machine: one manager whose Activate, Install and Link may be
\* observed between the os.Remove and the os.Symlink that replace an
\* existing current/<vmid>, and a reader of current/

\* A call that does not get to remove an existing current/<vmid>
NotReached == [reached |-> FALSE]

\* Mutant of ActivateRemoved: the existing symlink stays in place until
\* the new one replaces it
ActivateRemoved_Keep(f, org, name, version) ==
    LET gm == GetManifest(f, org, name, version)
        vmidPath == ActivePath(gm.manifest.VMID)
    IN  IF gm.err = "nil" /\ Lstat(f, vmidPath) /\ CanRemove(f, vmidPath)
        THEN [reached |-> TRUE, fs |-> f, id |-> gm.manifest.VMID]
        ELSE NotReached

\* Activate up to and including os.Remove(vmidPath) (lines 346-367): the
\* filesystem at that point and the identifier
ActivateRemoved(f, org, name, version) ==
    LET gm == GetManifest(f, org, name, version)
        vmidPath == ActivePath(gm.manifest.VMID)
    IN  IF gm.err = "nil" /\ Lstat(f, vmidPath) /\ CanRemove(f, vmidPath)
        THEN [reached |-> TRUE, fs |-> Remove(f, vmidPath), id |-> gm.manifest.VMID]
        ELSE NotReached

\* Install up to and including the os.Remove of its Activate: the binary
\* is copied, the manifest written, the version recorded in memory
InstallRemoved(f, reg, now, manifest, binaryPath) ==
    LET pkgPath == PackagePath(manifest.Org, manifest.Name, manifest.Version)
        f1 == MkdirAll(f, pkgPath)
        binaryName == IF manifest.Binary = "" THEN manifest.Name ELSE manifest.Binary
        destBinaryPath == JoinElems(pkgPath, <<binaryName>>)
        cp == copyFile(f1, binaryPath, destBinaryPath)
        f2 == Chmod(cp.fs, destBinaryPath, "0755")
        m1 == [manifest EXCEPT !.Size = IF Stat(f2, destBinaryPath) THEN StatSize(f2, destBinaryPath) ELSE @,
                               !.InstalledAt = now]
        manifestPath == JoinElems(pkgPath, <<"manifest.json">>)
        f3 == WriteFile(f2, manifestPath, MarshalManifest(m1), "0644")
        pkgKey == PkgKey(manifest.Org, manifest.Name)
        versions == MapGet(reg.Plugins, pkgKey)
        reg1 == IF ~contains(versions, manifest.Version)
                THEN [reg EXCEPT !.Plugins = MapPut(@, pkgKey, Append(versions, manifest.Version))]
                ELSE reg
        ar == ActivateRemoved(f3, manifest.Org, manifest.Name, manifest.Version)
    IN  IF /\ ValidateManifest(manifest) = "nil"
           /\ cp.err = "nil"
           /\ CanWrite(f2, manifestPath)
           /\ ar.reached
        THEN [reached |-> TRUE, fs |-> ar.fs, reg |-> reg1, manifest |-> m1, id |-> ar.id]
        ELSE NotReached

\* Link up to and including os.Remove(vmidPath) (lines 260-325)
LinkRemoved(f, reg, now, manifest, binaryPath) ==
    LET absBinaryPath == binaryPath
        m1 == [manifest EXCEPT !.Size = StatSize(f, absBinaryPath), !.InstalledAt = now]
        pkgPath == PackagePath(manifest.Org, manifest.Name, manifest.Version)
        f1 == MkdirAll(f, pkgPath)
        binaryName == IF manifest.Binary = "" THEN manifest.Name ELSE manifest.Binary
        destBinaryPath == JoinElems(pkgPath, <<binaryName>>)
        present == Lstat(f1, destBinaryPath)
        f2 == IF present THEN Remove(f1, destBinaryPath) ELSE f1
        f3 == Symlink(f2, absBinaryPath, destBinaryPath)
        manifestPath == JoinElems(pkgPath, <<"manifest.json">>)
        f4 == WriteFile(f3, manifestPath, MarshalManifest(m1), "0644")
        pkgKey == PkgKey(manifest.Org, manifest.Name)
        versions == MapGet(reg.Plugins, pkgKey)
        reg1 == IF ~contains(versions, manifest.Version)
                THEN [reg EXCEPT !.Plugins = MapPut(@, pkgKey, Append(versions, manifest.Version))]
                ELSE reg
        vmidPath == ActivePath(manifest.VMID)
    IN  IF /\ ValidateManifest(manifest) = "nil"
           /\ Stat(f, absBinaryPath)
           /\ (present => CanRemove(f1, destBinaryPath))
           /\ CanSymlink(f2, destBinaryPath)
           /\ CanWrite(f3, manifestPath)
           /\ Lstat(f4, vmidPath)
           /\ CanRemove(f4, vmidPath)
        THEN [reached |-> TRUE, fs |-> Remove(f4, vmidPath), reg |-> reg1, manifest |-> m1,
              id |-> manifest.VMID]
        ELSE NotReached

\* The call stands right after its os.Remove(vmidPath).  pc keeps the
\* call and its local variables; bound: the identifier was a key of
\* registry.Active when the call began.
Suspend(st, reg, op, manifest, src) ==
    /\ fs' = st.fs
    /\ registry' = reg
    /\ pc' = [at |-> "removed", op |-> op, manifest |-> manifest, src |-> src, id |-> st.id,
              bound |-> st.id \in DOMAIN registry.Active]
    /\ UNCHANGED <<clock, last, globals, registryB>>

ActivateRemove ==
    /\ clock <= MaxOps
    /\ pc = Idle
    /\ \E t \in Triples :
           LET st == ActivateRemoved(fs, t[1], t[2], t[3])
           IN  st.reached /\ Suspend(st, registry, "Activate", Manifest(t[1], t[2], t[3], "", ""), NoPath)

InstallRemove ==
    /\ clock <= MaxOps
    /\ pc = Idle
    /\ \E m \in ValidManifests, b \in Sources :
           LET st == InstallRemoved(fs, registry, clock + 1, m, b)
           IN  st.reached /\ Suspend(st, st.reg, "Install", st.manifest, b)

LinkRemove ==
    /\ clock <= MaxOps
    /\ pc = Idle
    /\ \E m \in ValidManifests, b \in Sources :
           LET st == LinkRemoved(fs, registry, clock + 1, m, b)
           IN  st.reached /\ Suspend(st, st.reg, "Link", st.manifest, b)

\* The rest of the suspended call, from os.Symlink(binaryPath, vmidPath)
\* on.  On the filesystem the os.Remove left, the lines of Activate, of
\* InstallRegister and of LinkRegister before their os.Symlink change
\* nothing (the version is recorded, current/<vmid> is absent).
Resume(f, reg, now) ==
    CASE pc.op = "Activate" -> Activate(f, reg, now, pc.manifest.Org, pc.manifest.Name, pc.manifest.Version)
      [] pc.op = "Install" -> InstallRegister(f, reg, now, pc.manifest)
      [] pc.op = "Link" -> LinkRegister(f, reg, now, pc.manifest, pc.src)

\* The suspended call runs to its end (missed: the reader's latest look
\* at current/<id> fell between the os.Remove and now, and found nothing)
RebindCreate ==
    /\ pc # Idle
    /\ LET r == Resume(fs, registry, clock + 1)
       IN  /\ fs' = r.fs
           /\ registry' = r.reg
           /\ last' = [op |-> pc.op, manifest |-> pc.manifest, src |-> pc.src, err |-> r.err,
                       again |-> FALSE, id |-> pc.id, bound |-> pc.bound,
                       missed |-> (last.op = "ReadCurrent" /\ last.during # Idle
                                   /\ last.id = pc.id /\ ~last.found)]
    /\ clock' = clock + 1
    /\ pc' = Idle
    /\ UNCHANGED <<globals, registryB>>

\* Another process looks at current/<id> (os.Lstat)
ReadCurrent ==
    /\ \E id \in VMIDs :
           last' = [op |-> "ReadCurrent", manifest |-> NoManifest, src |-> NoPath, err |-> "nil",
                    again |-> FALSE, id |-> id, found |-> Lstat(fs, ActivePath(id)), during |-> pc]
    /\ UNCHANGED <<fs, registry, clock, others>>

StepInstall == pc = Idle /\ DoInstall

StepLink == pc = Idle /\ DoLink

StepActivate == pc = Idle /\ DoActivate

StepsNext ==
    \/ StepInstall
    \/ StepLink
    \/ StepActivate
    \/ ActivateRemove
    \/ InstallRemove
    \/ LinkRemove
    \/ RebindCreate
    \/ ReadCurrent

SpecSteps == Init /\ [][StepsNext]_vars

----------------------------------------------------------------------------
\* State machine: one manager, and an environment that removes the
\* manifest.json of a version or overwrites it with bytes that are no JSON

DamageManifest ==
    /\ clock <= MaxOps
    /\ \E t \in Triples, d \in Contents :
           /\ CanRead(fs, ManifestPath(t[1], t[2], t[3]))
           /\ Commit(Ret(WriteFile(fs, ManifestPath(t[1], t[2], t[3]), d, "0644"), registry, "nil"),
                     "DamageManifest", Manifest(t[1], t[2], t[3], "", ""), NoPath)

RemoveManifest ==
    /\ clock <= MaxOps
    /\ \E t \in Triples :
           /\ Lstat(fs, ManifestPath(t[1], t[2], t[3]))
           /\ Commit(Ret(Remove(fs, ManifestPath(t[1], t[2], t[3])), registry, "nil"),
                     "RemoveManifest", Manifest(t[1], t[2], t[3], "", ""), NoPath)

\* Uninstall; last keeps what GetManifest returned for the version when
\* the call began (gm)
ManifestUninstall ==
    /\ clock <= MaxOps
    /\ \E t \in Triples :
           LET r == Uninstall(fs, registry, clock + 1, t[1], t[2], t[3])
           IN  /\ fs' = r.fs
               /\ registry' = r.reg
               /\ clock' = clock + 1
               /\ last' = [op |-> "Uninstall", manifest |-> Manifest(t[1], t[2], t[3], "", ""),
                           src |-> NoPath, err |-> r.err, again |-> FALSE,
                           gm |-> GetManifest(fs, t[1], t[2], t[3]).err]
    /\ UNCHANGED others

ManifestNext == DoInstall \/ ManifestUninstall \/ DamageManifest \/ RemoveManifest

SpecManifest == Init /\ [][ManifestNext]_vars

----------------------------------------------------------------------------
\* State machine: one manager, and an environment that puts directories
\* where the manager expects registry.json or a current/<vmid> symlink,
\* so that os.WriteFile and os.Remove fail

\* rm -f registry.json; mkdir registry.json
BlockRegistry ==
    /\ clock <= MaxOps
    /\ ~IsDir(fs, RegistryPath)
    /\ Commit(Ret(MkdirAll(RemoveAll(fs, RegistryPath), RegistryPath), registry, "nil"),
              "BlockRegistry", NoManifest, RegistryPath)

\* rm -f current/<id>; mkdir -p current/<id>/keep
BlockCurrent ==
    /\ clock <= MaxOps
    /\ \E id \in VMIDs :
           /\ ~IsDir(fs, ActivePath(id))
           /\ Commit(Ret(MkdirAll(RemoveAll(fs, ActivePath(id)), JoinElems(ActivePath(id), <<"keep">>)),
                         registry, "nil"),
                     "BlockCurrent", NoManifest, ActivePath(id))

BlockedNext == DoInstall \/ DoLink \/ BlockRegistry \/ BlockCurrent

SpecBlocked == Init /\ [][BlockedNext]_vars

----------------------------------------------------------------------------
\* Vocabulary of the properties

\* The binary path Activate computes for a version (lines 353-358)
BinaryPathOf(f, org, name, version) ==
    LET manifest == GetManifest(f, org, name, version).manifest
        binaryName == IF manifest.Binary = "" THEN name ELSE manifest.Binary
    IN  JoinElems(PackagePath(org, name, version), <<binaryName>>)

\* The binary path Install and Link compute from the manifest they are given
DestBinaryPath(manifest) ==
    JoinElems(PackagePath(manifest.Org, manifest.Name, manifest.Version),
              <<IF manifest.Binary = "" THEN manifest.Name ELSE manifest.Binary>>)

IsActive(reg, id) == id \in DOMAIN reg.Active

CurrentExists(f, id) == Lstat(f, ActivePath(id))

\* What an identifier is bound to: its registry reference and the target
\* of its current/ symlink ("" and <<>> when absent)
Binding(f, reg, id) ==
    <<IF IsActive(reg, id) THEN reg.Active[id] ELSE "",
      IF CurrentExists(f, id) THEN f[ActivePath(id)].target ELSE <<>>>>

\* current/<id> is a symlink that resolves to the binary file of the
\* version the reference names
ResolvesToBinaryOf(f, id, pkgRef) ==
    LET ref == SplitPkgRef(pkgRef)
        parts == SplitPkgKey(ref[1])
        binaryPath == BinaryPathOf(f, parts[1], parts[2], ref[2])
    IN  /\ CurrentExists(f, id)
        /\ f[ActivePath(id)].kind = "symlink"
        /\ ref # <<>>
        /\ Len(parts) = 2
        /\ GetManifest(f, parts[1], parts[2], ref[2]).err = "nil"
        /\ CanRead(f, binaryPath)
        /\ Resolve(f, ActivePath(id)) = Resolve(f, binaryPath)

Succeeded(l, ops) == l.op \in ops /\ l.err = "nil"

LastRef(l) == PkgRef(l.manifest.Org, l.manifest.Name, l.manifest.Version)

----------------------------------------------------------------------------
\* C1: in every reachable state an identifier is a key of registry.Active
\* if and only if the symlink current/<identifier> exists and resolves to
\* the binary of the version that Active[identifier] names.
C1_ActiveIffCurrentResolves ==
    \A id \in VMIDs :
        /\ IsActive(registry, id) => ResolvesToBinaryOf(fs, id, registry.Active[id])
        /\ CurrentExists(fs, id) => IsActive(registry, id)

\* C2: Uninstall(org, name, version) removes current/<identifier> and the
\* Active binding of an identifier only if Active[identifier] equals
\* "org/name@version" before the call; every other identifier's binding and
\* symlink are left unchanged.
C2_UninstallOnlyClearsOwnBinding ==
    [][last'.op = "Uninstall" =>
          \A id \in VMIDs :
              ~(IsActive(registry, id) /\ registry.Active[id] = LastRef(last'))
                  => Binding(fs', registry', id) = Binding(fs, registry, id)]_vars

\* The identifier is unbound: no current/ symlink, no registry binding,
\* no ListActive entry
Unbound(f, reg, id) ==
    /\ ~CurrentExists(f, id)
    /\ ~IsActive(reg, id)
    /\ id \notin DOMAIN ListActive(f, reg)

\* The call recorded in l succeeded and activated the identifier (read in
\* the filesystem f the call left)
ActivatedBy(f, l, id) ==
    \/ Succeeded(l, {"Install", "Link"}) /\ l.manifest.VMID = id
    \/ /\ Succeeded(l, {"Activate"})
       /\ GetManifest(f, l.manifest.Org, l.manifest.Name, l.manifest.Version).manifest.VMID = id

\* C3: after Uninstall of the version that is active for identifier I,
\* current/I does not exist, I is not a key of registry.Active and
\* ListActive does not contain I; and an unbound identifier stays unbound
\* until an Activate, Install or Link for it succeeds.
C3_UninstallActiveUnbinds ==
    [][\A id \in VMIDs :
          /\ (/\ last'.op = "Uninstall"
              /\ IsActive(registry, id)
              /\ registry.Active[id] = LastRef(last'))
                 => Unbound(fs', registry', id)
          /\ (Unbound(fs, registry, id) /\ ~ActivatedBy(fs', last', id))
                 => Unbound(fs', registry', id)]_vars

\* C4: after a successful Install(M, B) the binary file holds the contents
\* of B, GetManifest returns M with size and install time filled in,
\* latest points at the version, current/<vmid> resolves to the installed
\* binary, the registry records the version and binds the identifier to
\* it, and List returns M.
C4_InstallPostcondition ==
    [][Succeeded(last', {"Install"}) =>
          LET m == last'.manifest
              dest == DestBinaryPath(m)
              gm == GetManifest(fs', m.Org, m.Name, m.Version)
              stored == [m EXCEPT !.Size = Len(ReadFile(fs, last'.src)), !.InstalledAt = clock']
              latest == LatestPath(m.Org, m.Name)
          IN  /\ Lstat(fs', dest) /\ CanRead(fs', dest)
              /\ ReadFile(fs', dest) = ReadFile(fs, last'.src)
              /\ gm.err = "nil" /\ gm.manifest = stored
              /\ stored.Size > 0 /\ stored.InstalledAt > 0
              /\ Lstat(fs', latest) /\ fs'[latest].kind = "symlink"
              /\ Resolve(fs', latest) = PackagePath(m.Org, m.Name, m.Version)
              /\ CurrentExists(fs', m.VMID)
              /\ Resolve(fs', ActivePath(m.VMID)) = Resolve(fs', dest)
              /\ contains(MapGet(registry'.Plugins, PkgKey(m.Org, m.Name)), m.Version)
              /\ IsActive(registry', m.VMID)
              /\ registry'.Active[m.VMID] = PkgRef(m.Org, m.Name, m.Version)
              /\ stored \in List(fs', registry')]_vars

\* C4 witness: a second version of a package has just been installed
C4_Witness ==
    /\ Succeeded(last, {"Install"})
    /\ Len(MapGet(registry.Plugins, PkgKey(last.manifest.Org, last.manifest.Name))) = 2
    /\ CanRead(fs, DestBinaryPath(last.manifest))
    /\ Resolve(fs, LatestPath(last.manifest.Org, last.manifest.Name))
           = PackagePath(last.manifest.Org, last.manifest.Name, last.manifest.Version)

\* C5: a successful Install, Link or Activate binds the identifier it
\* activates to its own version, with current/<identifier> resolving to
\* that version's binary, and leaves every other identifier bound as the
\* most recent activation of that identifier left it, still resolving to a
\* binary.
C5_MostRecentActivationWins ==
    [][Succeeded(last', {"Install", "Link", "Activate"}) =>
          \A id \in VMIDs :
              IF ActivatedBy(fs', last', id)
              THEN /\ IsActive(registry', id)
                   /\ registry'.Active[id] = LastRef(last')
                   /\ ResolvesToBinaryOf(fs', id, LastRef(last'))
              ELSE /\ Binding(fs', registry', id) = Binding(fs, registry, id)
                   /\ CanRead(fs, ActivePath(id)) => CanRead(fs', ActivePath(id))]_vars

\* C5 witness: an identifier bound to one version has just been rebound
\* to a newly linked version of the same package
C5_Witness ==
    /\ Succeeded(last, {"Link"})
    /\ Len(MapGet(registry.Plugins, PkgKey(last.manifest.Org, last.manifest.Name))) = 2
    /\ IsActive(registry, last.manifest.VMID)
    /\ registry.Active[last.manifest.VMID] = LastRef(last)
    /\ DOMAIN registry.Active = {last.manifest.VMID}

\* C6: no version list of registry.Plugins holds a version twice and no
\* package key maps to an empty list.
C6_VersionListsDistinctNonEmpty ==
    \A k \in DOMAIN registry.Plugins :
        /\ Len(registry.Plugins[k]) > 0
        /\ \A i, j \in 1..Len(registry.Plugins[k]) :
               i # j => registry.Plugins[k][i] # registry.Plugins[k][j]

\* C6 witness: one version was installed twice (two identifiers are bound
\* to it) and is listed once
C6_Witness ==
    /\ Succeeded(last, {"Install", "Link"})
    /\ \E id1, id2 \in DOMAIN registry.Active :
           id1 # id2 /\ registry.Active[id1] = registry.Active[id2]
    /\ MapGet(registry.Plugins, PkgKey(last.manifest.Org, last.manifest.Name)) = <<last.manifest.Version>>

\* C7: Install and Link with a manifest whose org, name, version or vmid
\* is empty return an error and leave the filesystem and the in-memory
\* registry exactly as they were.
C7_InvalidManifestNoEffect ==
    [][(/\ last'.op \in {"Install", "Link"}
        /\ \/ last'.manifest.Org = ""
           \/ last'.manifest.Name = ""
           \/ last'.manifest.Version = ""
           \/ last'.manifest.VMID = "")
          => (last'.err # "nil" /\ fs' = fs /\ registry' = registry)]_vars

\* C7 witness: Link was refused for an empty identifier on a store that
\* already holds a package
C7_Witness ==
    /\ last.op = "Link"
    /\ last.manifest.VMID = ""
    /\ last.err = "manifest must have vmid"
    /\ DOMAIN registry.Plugins # {}

\* The entries of current/
CurrentLinks(f) == [id \in ReadDir(f, GetActiveDir) |-> f[ActivePath(id)]]

\* The version is installed: recorded in the registry, manifest on disk
Installed(f, reg, org, name, version) ==
    /\ contains(MapGet(reg.Plugins, PkgKey(org, name)), version)
    /\ GetManifest(f, org, name, version).err = "nil"

\* C8: Activate of an installed version succeeds, and repeating a
\* successful Activate succeeds and leaves the current/ symlinks,
\* registry.Plugins and registry.Active as the first call left them.
C8_ActivateIdempotent ==
    [][last'.op = "Activate" =>
          /\ Installed(fs, registry, last'.manifest.Org, last'.manifest.Name, last'.manifest.Version)
                 => last'.err = "nil"
          /\ last'.again =>
                 /\ last'.err = "nil"
                 /\ CurrentLinks(fs') = CurrentLinks(fs)
                 /\ registry'.Plugins = registry.Plugins
                 /\ registry'.Active = registry.Active]_vars

\* C8 witness: the same version has been activated twice in a row
C8_Witness ==
    /\ Succeeded(last, {"Activate"})
    /\ last.again
    /\ registry.UpdatedAt = clock
    /\ registry.Active # EmptyMap

----------------------------------------------------------------------------
\* C11: constructing a manager on a base directory without registry.json
\* succeeds with an empty registry; constructing it on one whose
\* registry.json does not parse returns an error and no manager, and
\* leaves registry.json as it was.
C11_AbsentLoadsEmptyUnparsableFails ==
    [][last'.op = "New" =>
          /\ ~Lstat(fs, RegistryPath) =>
                 /\ last'.err = "nil"
                 /\ registry' # NoManager
                 /\ registry'.Plugins = EmptyMap
                 /\ registry'.Active = EmptyMap
          /\ (CanRead(fs, RegistryPath) /\ ~JsonValid(ReadFile(fs, RegistryPath))) =>
                 /\ last'.err # "nil"
                 /\ registry' = NoManager
                 /\ Lstat(fs', RegistryPath)
                 /\ fs'[RegistryPath] = fs[RegistryPath]]_vars

\* C11 witness: a manager was refused on a registry.json that holds bytes
\* that are no JSON
C11_Witness ==
    /\ last.op = "New"
    /\ last.err = "failed to parse registry"
    /\ registry = NoManager
    /\ CanRead(fs, RegistryPath)
    /\ ~JsonValid(ReadFile(fs, RegistryPath))

\* The plugins and active mappings stored in registry.json
StoredMappings(f) ==
    LET stored == UnmarshalRegistry(ReadFile(f, RegistryPath))
    IN  <<stored.Plugins, stored.Active>>

\* C12: after every successful Install, Link, Activate or Uninstall the
\* plugins and active mappings stored in registry.json equal the in-memory
\* registry, and a manager constructed next on the same base directory
\* loads exactly those mappings.
C12_RegistryFileEqualsMemory ==
    [][/\ Succeeded(last', {"Install", "Link", "Activate", "Uninstall"}) =>
              /\ CanRead(fs', RegistryPath)
              /\ JsonValid(ReadFile(fs', RegistryPath))
              /\ StoredMappings(fs') = <<registry'.Plugins, registry'.Active>>
       /\ (last'.op = "New" /\ Succeeded(last, {"Install", "Link", "Activate", "Uninstall"})) =>
              /\ last'.err = "nil"
              /\ registry' # NoManager
              /\ registry'.Plugins = registry.Plugins
              /\ registry'.Active = registry.Active]_vars

\* C12 witness: a manager constructed after a successful call has loaded
\* a package and a binding
C12_Witness ==
    /\ Succeeded(last, {"New"})
    /\ registry # NoManager
    /\ registry.Plugins # EmptyMap
    /\ registry.Active # EmptyMap
    /\ StoredMappings(fs) = <<registry.Plugins, registry.Active>>

\* d is a proper prefix of e
IsProperPrefix(d, e) == Len(d) < Len(e) /\ d = SubSeq(e, 1, Len(d))

\* The call from filesystem f to filesystem g left a partially written
\* copy of the source at dest: a file the call created or rewrote that
\* holds only a proper prefix of the source's contents
PartialBinary(f, g, src, dest) ==
    /\ CanRead(g, dest)
    /\ CanRead(f, src)
    /\ IsProperPrefix(ReadFile(g, dest), ReadFile(f, src))
    /\ (CanRead(f, dest) => ReadFile(f, dest) # ReadFile(g, dest))

\* C13: when Install fails while copying the source binary or after it has
\* started to (read failure, write failure, chmod failure), no partially
\* written binary remains at packages/org/name/version/<binary>.
C13_FailedCopyLeavesNoPartialBinary ==
    [][(/\ last'.op = "Install"
        /\ last'.err \in {"failed to copy binary", "failed to make binary executable"})
          => ~PartialBinary(fs, fs', last'.src, DestBinaryPath(last'.manifest))]_vars

\* C15: Install with a context that is cancelled before the call or during
\* the copy returns the cancellation error, leaves no destination binary,
\* does not record the version and changes no current/ symlink.
C15_InstallHonoursCancellation ==
    [][(last'.op = "Install" /\ last'.ctx # "live") =>
          /\ last'.err = "context canceled"
          /\ ~Lstat(fs', DestBinaryPath(last'.manifest))
          /\ registry'.Plugins = registry.Plugins
          /\ CurrentLinks(fs') = CurrentLinks(fs)]_vars

\* Install(ctx, src, id) on filesystem f gets as far as its copy loop: the
\* source is a file and the destination can be created
ReachesCopy(f, src, id) == CanRead(f, src) /\ CanWrite(EnsureDir(f), GetPath(id))

\* What the open source file holds once the destination has been
\* truncated, and the number of polls of ctx a complete copy of it takes
\* (one per Read, the last Read returning io.EOF)
CopyData(f, src, id) ==
    IF Resolve(f, src) = Resolve(EnsureDir(f), GetPath(id)) THEN <<>> ELSE ReadFile(f, src)

CopyPolls(f, src, id) == (Len(CopyData(f, src, id)) + BufSize - 1) \div BufSize + 1

\* C14: DefaultPluginManager.Install polls the cancellation signal before
\* every read: a context cancelled at any poll before the copy completes
\* makes the call return the cancellation error with <pluginDir>/<vmID>
\* absent, and a failed read or write of the copy removes the destination
\* before the error is returned.
C14_DefaultInstallCleansUpOnAbort ==
    [][(last'.op = "DefaultInstall" /\ ReachesCopy(fs, last'.src, last'.id)) =>
          LET polls == CopyPolls(fs, last'.src, last'.id)
              dest == GetPath(last'.id)
          IN  /\ last'.ctx \in 1..polls =>
                     (last'.err = "context canceled" /\ ~Lstat(fs', dest))
              /\ (last'.fault.kind = "read" /\ last'.fault.n <= polls) =>
                     (last'.err = "failed to read source" /\ ~Lstat(fs', dest))
              /\ (last'.fault.kind = "write" /\ last'.fault.n < polls) =>
                     (last'.err = "failed to write plugin" /\ ~Lstat(fs', dest))
              /\ last'.err # "nil" => ~Lstat(fs', dest)]_vars

\* C14 witness: the copy of a two-byte binary was cancelled at its second
\* poll, after the first byte had been written, and the destination is gone
C14_Witness ==
    /\ last.op = "DefaultInstall"
    /\ last.ctx = 2
    /\ last.err = "context canceled"
    /\ Len(ReadFile(fs, last.src)) = 2
    /\ ~Lstat(fs, GetPath(last.id))

\* The version is neither recorded in the registry nor on disk with a
\* manifest
NotInstalled(f, reg, org, name, version) ==
    /\ ~contains(MapGet(reg.Plugins, PkgKey(org, name)), version)
    /\ GetManifest(f, org, name, version).err # "nil"

\* Everything below packages/ outside pkgPath is the same in f and g
OtherPackagesSame(f, g, pkgPath) ==
    \A p \in (DOMAIN f) \cup (DOMAIN g) :
        (IsPrefix(JoinElems(baseDir, <<packagesDir>>), p) /\ ~IsPrefix(pkgPath, p))
            => (p \in DOMAIN f /\ p \in DOMAIN g /\ f[p] = g[p])

\* C16: PluginPackageManager.Uninstall of a version that is not installed
\* returns nil and leaves registry.Plugins, registry.Active, every
\* current/ symlink and every other package directory unchanged;
\* DefaultPluginManager.Uninstall of an absent identifier returns nil and
\* changes nothing.
C16_UninstallAbsentIsNoOp ==
    [][/\ (/\ last'.op = "Uninstall"
           /\ NotInstalled(fs, registry, last'.manifest.Org, last'.manifest.Name, last'.manifest.Version))
              => /\ last'.err = "nil"
                 /\ registry'.Plugins = registry.Plugins
                 /\ registry'.Active = registry.Active
                 /\ CurrentLinks(fs') = CurrentLinks(fs)
                 /\ OtherPackagesSame(fs, fs', PackagePath(last'.manifest.Org, last'.manifest.Name,
                                                          last'.manifest.Version))
       /\ (last'.op = "DefaultUninstall" /\ ~Lstat(fs, GetPath(last'.id)))
              => /\ last'.err = "nil"
                 /\ fs' = fs
                 /\ registry' = registry]_vars

\* C16 witness: a version has been uninstalled a second time while
\* another package stays recorded and bound
C16_Witness ==
    /\ Succeeded(last, {"Uninstall"})
    /\ last.again
    /\ registry.Plugins # EmptyMap
    /\ registry.Active # EmptyMap
    /\ ReadDir(fs, GetActiveDir) # {}

\* The entry of the legacy directory is a symlink to a readable binary
ValidLegacyEntry(f, vmid) ==
    /\ Lstat(f, GetPath(vmid))
    /\ f[GetPath(vmid)].kind = "symlink"
    /\ CanRead(f, f[GetPath(vmid)].target)

\* The identifier is bound to a recorded version and current/<vmid>
\* resolves to a binary
InstalledAndActive(f, reg, vmid) ==
    /\ IsActive(reg, vmid)
    /\ SplitPkgRef(reg.Active[vmid]) # <<>>
    /\ contains(MapGet(reg.Plugins, SplitPkgRef(reg.Active[vmid])[1]), SplitPkgRef(reg.Active[vmid])[2])
    /\ CurrentExists(f, vmid)
    /\ CanRead(f, ActivePath(vmid))

\* C17: MigrateFromLegacy returns nil whatever the legacy directory holds,
\* and every valid symlink entry, before or after a failing one, ends up
\* installed and active; a missing legacy directory returns nil and
\* changes nothing.
C17_MigrateNeverAborts ==
    [][last'.op = "Migrate" =>
          /\ last'.err = "nil"
          /\ \A i \in 1..Len(LegacyNames) :
                 ValidLegacyEntry(fs, LegacyNames[i]) => InstalledAndActive(fs', registry', LegacyNames[i])
          /\ ~Lstat(fs, pluginDir) => (fs' = fs /\ registry' = registry)]_vars

\* C18: once a manager has been constructed on the resolved base
\* directory, ResolvePluginDir returns the directory in which the manager
\* creates the identifier symlinks (GetActiveDir, <base>/current); it
\* returns the base directory only when that subdirectory does not exist.
\* Stated for the ResolvePluginDir of loader.go and that of plugins.go.
C18_ResolvePluginDirIsActiveDir ==
    \A dir \in {ResolvePluginDir(fs), ResolvePluginDirActive(fs)} :
        /\ Opened => dir = GetActiveDir
        /\ dir = ResolvePluginBaseDir => ~IsDir(fs, GetActiveDir)

\* Byte i of a name padded with zero bytes on the right
ByteAt(name, i) == IF i <= Len(name) THEN name[i] ELSE 0

\* The two names agree on their first 32 bytes, zero-padded
SamePad32(a, b) == \A i \in 1..32 : ByteAt(a, i) = ByteAt(b, i)

\* C19: VMID depends only on the first 32 bytes of the name, zero-padded
\* on the right: two names with the same padded block get the same
\* identifier (also names that differ only beyond byte 32, and the same
\* name twice), and a name longer than 32 bytes gets an identifier like
\* any other, computed from a block of 32 bytes.
C19_VMIDDependsOnPad32 ==
    last.op = "VMID" =>
        /\ last.id.version = 0
        /\ Len(last.id.base58check.sha256) = 32
        /\ (last.prevId # NoManager /\ SamePad32(last.name, last.prevName)) => last.id = last.prevId

\* C19 witness: two different names, one longer than 32 bytes, with the
\* same padded block have got the same identifier
C19_Witness ==
    /\ last.op = "VMID"
    /\ last.prevId # NoManager
    /\ last.name # last.prevName
    /\ Len(last.name) > 32
    /\ SamePad32(last.name, last.prevName)
    /\ last.id = last.prevId

\* The plugin directory is absent or holds no entry
EmptyOrAbsent(f) == ~Lstat(f, pluginDir) \/ (IsDir(f, pluginDir) /\ ReadDir(f, pluginDir) = {})

\* List with a live context returns no error and no plugin
ListsNothing(f) == DefaultList(f, 0) = [err |-> "nil", plugins |-> {}]

\* C20: after a successful DefaultPluginManager.Install(source, vmID),
\* Exists(vmID) is true, Get(vmID).Installed is true and List holds an
\* entry with that VMID; after a successful Uninstall(vmID), Exists(vmID)
\* is false; List on an empty or absent directory returns an empty result
\* and no error.
C20_DefaultInstallExistsUninstallGone ==
    [][/\ Succeeded(last', {"DefaultInstall"}) =>
              /\ DefaultExists(fs', last'.id)
              /\ DefaultGet(fs', last'.id).err = "nil"
              /\ DefaultGet(fs', last'.id).info.Installed
              /\ DefaultList(fs', 0).err = "nil"
              /\ \E p \in DefaultList(fs', 0).plugins : p.VMID = last'.id
       /\ Succeeded(last', {"DefaultUninstall"}) => ~DefaultExists(fs', last'.id)
       /\ EmptyOrAbsent(fs) => ListsNothing(fs)
       /\ EmptyOrAbsent(fs') => ListsNothing(fs')]_vars

\* C20 witness: an entry that Exists reported has just been uninstalled,
\* which leaves the plugin directory empty
C20_Witness ==
    /\ Succeeded(last, {"DefaultUninstall"})
    /\ last.existed
    /\ IsDir(fs, pluginDir)
    /\ ReadDir(fs, pluginDir) = {}
    /\ ~DefaultExists(fs, last.id)
    /\ ListsNothing(fs)

----------------------------------------------------------------------------
\* C21: after SetGlobal(cfg) has returned, every call of Global() returns
\* cfg until the next SetGlobal, whether or not Global() was called before
\* the SetGlobal.
C21_GlobalReturnsWhatSetGlobalSet ==
    [][(last'.op = "Global" /\ last'.set # "none") => last'.ret = last'.set]_vars

\* C30: SetGlobalGPUConfig returns nil only if the global GPU
\* configuration is set afterwards (GetGlobalGPUConfig returns a
\* configuration that passes Validate and was passed to a
\* SetGlobalGPUConfig call), and a call whose argument fails Validate
\* returns an error.
C30_SetGlobalGPUConfigNilMeansSet ==
    [][last'.op = "SetGlobalGPUConfig" =>
          /\ last'.err = "nil" =>
                 /\ globals'.globalGPUConfigSet
                 /\ Validate(GetGlobalGPUConfig(globals'), last'.goos) = "nil"
                 /\ GetGlobalGPUConfig(globals') \in last'.passed
          /\ Validate(last'.arg, last'.goos) # "nil" => last'.err # "nil"]_vars

\* The registry stored in registry.json
StoredRegistry(f) == UnmarshalRegistry(ReadFile(f, RegistryPath))

\* registry.json lists the version and binds the identifier to it
StoredLists(f, m) ==
    /\ CanRead(f, RegistryPath)
    /\ contains(MapGet(StoredRegistry(f).Plugins, PkgKey(m.Org, m.Name)), m.Version)
    /\ m.VMID \in DOMAIN StoredRegistry(f).Active
    /\ StoredRegistry(f).Active[m.VMID] = PkgRef(m.Org, m.Name, m.Version)

\* registry.json holds neither the version nor a binding of the identifier
StoredLacks(f, m) ==
    /\ CanRead(f, RegistryPath)
    /\ ~contains(MapGet(StoredRegistry(f).Plugins, PkgKey(m.Org, m.Name)), m.Version)
    /\ m.VMID \notin DOMAIN StoredRegistry(f).Active

\* The package directory of the manifest and the current/ symlink of its
\* identifier exist
OnDisk(f, m) ==
    /\ IsDir(f, PackagePath(m.Org, m.Name, m.Version))
    /\ CurrentExists(f, m.VMID)

\* The manager that holds reg in memory knows nothing of the package
UnknownTo(reg, m) ==
    /\ PkgKey(m.Org, m.Name) \notin DOMAIN reg.Plugins
    /\ m.VMID \notin DOMAIN reg.Active

\* C22: two managers on one base directory can lose an update.  When the
\* second manager, constructed before the first one installed X,
\* successfully installs another package Y under another identifier,
\* registry.json lists Y and holds neither X's version nor X's binding,
\* while X's package directory and current/ symlink are still there.
C22_SecondManagerSaveLosesUpdate ==
    [][Succeeded(last', {"InstallB"}) =>
          /\ StoredLists(fs', last'.manifest)
          /\ \A x \in ValidManifests :
                 (/\ StoredLists(fs, x) /\ OnDisk(fs, x)
                  /\ UnknownTo(registryB, x)
                  /\ x.Name # last'.manifest.Name
                  /\ x.VMID # last'.manifest.VMID)
                     => (StoredLacks(fs', x) /\ OnDisk(fs', x))]_vars

\* C22 witness: the first manager has installed X, and the second
\* manager's install of Y has just replaced registry.json by a document
\* without X; X's directory and symlink exist
C22_Witness ==
    /\ Succeeded(last, {"InstallB"})
    /\ StoredLists(fs, last.manifest)
    /\ \E x \in ValidManifests :
           /\ contains(MapGet(registry.Plugins, PkgKey(x.Org, x.Name)), x.Version)
           /\ IsActive(registry, x.VMID) /\ registry.Active[x.VMID] = PkgRef(x.Org, x.Name, x.Version)
           /\ x.Name # last.manifest.Name /\ x.VMID # last.manifest.VMID
           /\ StoredLacks(fs, x)
           /\ OnDisk(fs, x)
           /\ GetManifest(fs, x.Org, x.Name, x.Version).err = "nil"

\* C23: replacing current/<identifier> is a removal followed by a
\* creation.  While Activate, Install or Link rebinds an identifier that
\* is bound in the registry, there is a state in which current/<identifier>
\* does not exist (a reader that looks then finds nothing), although the
\* identifier is bound in memory and in registry.json at that moment, and
\* is bound, with its symlink back, when the call has succeeded.
C23_RebindLeavesGap ==
    [][/\ (pc = Idle /\ pc' # Idle /\ pc'.bound) =>
              /\ CurrentExists(fs, pc'.id)
              /\ ~CurrentExists(fs', pc'.id)
              /\ IsActive(registry', pc'.id)
              /\ CanRead(fs', RegistryPath) /\ pc'.id \in DOMAIN StoredRegistry(fs').Active
       /\ (pc # Idle /\ last'.op = "ReadCurrent" /\ last'.id = pc.id) => ~last'.found
       /\ (pc # Idle /\ pc' = Idle /\ pc.bound /\ last'.err = "nil") =>
              /\ ~CurrentExists(fs, pc.id)
              /\ CurrentExists(fs', pc.id)
              /\ IsActive(registry', pc.id)]_vars

\* C23 witness: a call that rebound an identifier has succeeded; the
\* identifier was bound before and is bound now, and a reader that looked
\* during the call found current/<identifier> missing
C23_Witness ==
    /\ Succeeded(last, {"Activate", "Install", "Link"})
    /\ pc = Idle
    /\ "missed" \in DOMAIN last
    /\ last.bound
    /\ last.missed
    /\ IsActive(registry, last.id)
    /\ CurrentExists(fs, last.id)

\* Nothing is left at or below the path
Gone(f, p) == \A q \in DOMAIN f : ~IsPrefix(p, q)

\* The version lists of after are those of before without the version:
\* every other version and key stays, a key without versions is dropped
VersionDropped(before, after, org, name, version) ==
    /\ \A k \in ((DOMAIN before) \cup (DOMAIN after)) \ {PkgKey(org, name)} :
           k \in DOMAIN before /\ k \in DOMAIN after /\ after[k] = before[k]
    /\ ~contains(MapGet(after, PkgKey(org, name)), version)
    /\ \A v \in Versions \ {version} :
           contains(MapGet(after, PkgKey(org, name)), v) <=> contains(MapGet(before, PkgKey(org, name)), v)
    /\ PkgKey(org, name) \in DOMAIN after => Len(after[PkgKey(org, name)]) > 0

\* C24: when Uninstall cannot load the version's manifest (missing or
\* malformed) it returns nil, leaves every current/ symlink and every
\* Active binding as they were, deletes the version's directory subtree,
\* removes the version from registry.Plugins (dropping a key whose list
\* becomes empty) and persists the registry.
C24_UninstallWithoutManifest ==
    [][(last'.op = "Uninstall" /\ last'.gm # "nil") =>
          LET m == last'.manifest
          IN  /\ last'.err = "nil"
              /\ CurrentLinks(fs') = CurrentLinks(fs)
              /\ registry'.Active = registry.Active
              /\ Gone(fs', PackagePath(m.Org, m.Name, m.Version))
              /\ VersionDropped(registry.Plugins, registry'.Plugins, m.Org, m.Name, m.Version)
              /\ CanRead(fs', RegistryPath)
              /\ StoredMappings(fs') = <<registry'.Plugins, registry'.Active>>]_vars

\* C24 witness: a version whose manifest did not parse has been
\* uninstalled; the identifier it was installed under is still bound and
\* its current/ symlink is still there
C24_Witness ==
    /\ Succeeded(last, {"Uninstall"})
    /\ last.gm = "failed to parse manifest"
    /\ Gone(fs, PackagePath(last.manifest.Org, last.manifest.Name, last.manifest.Version))
    /\ PkgKey(last.manifest.Org, last.manifest.Name) \notin DOMAIN registry.Plugins
    /\ \E id \in VMIDs :
           /\ IsActive(registry, id)
           /\ registry.Active[id] = LastRef(last)
           /\ CurrentExists(fs, id)

\* The name MigrateFromLegacy gives the package of a legacy entry
LegacyName(vmid) == SubSeq(vmid, 1, 8) \o "..."

\* The entry is a symlink whose Install succeeds: the name is long enough
\* for vmid[:8] and the target is a readable binary
MigratableEntry(f, vmid) == Len(vmid) >= 8 /\ ValidLegacyEntry(f, vmid)

\* The entry has been migrated from the legacy directory in f to the
\* store in g under the registry reg
MigratedAs(f, g, reg, vmid) ==
    LET target == f[GetPath(vmid)].target
        name == LegacyName(vmid)
        gm == GetManifest(g, "legacy", name, "v0.0.0")
        binary == JoinElems(PackagePath("legacy", name, "v0.0.0"), <<Base(target)>>)
    IN  /\ gm.err = "nil"
        /\ gm.manifest.Org = "legacy"
        /\ gm.manifest.Name = name
        /\ gm.manifest.Version = "v0.0.0"
        /\ gm.manifest.VMID = vmid
        /\ gm.manifest.Binary = Base(target)
        /\ contains(MapGet(reg.Plugins, PkgKey("legacy", name)), "v0.0.0")
        /\ IsActive(reg, vmid)
        /\ reg.Active[vmid] = "legacy/" \o name \o "@v0.0.0"
        /\ CanRead(g, binary)
        /\ ReadFile(g, binary) = ReadFile(f, target)
        /\ CurrentExists(g, vmid)
        /\ Resolve(g, ActivePath(vmid)) = binary

\* C25: MigrateFromLegacy changes state only for entries that are
\* symlinks (a legacy directory without symlinks changes nothing, the
\* binding of an entry that is no symlink stays), and every symlink entry V
\* whose install succeeds ends up as package legacy/<V[:8]...>@v0.0.0 with
\* manifest identifier V, the target's base name as binary, Active[V]
\* naming it and current/V resolving to the copied binary.
C25_MigrateInstallsEachSymlink ==
    [][(last'.op = "Migrate" /\ last'.err = "nil") =>
          /\ (\A i \in 1..Len(LegacyNames) :
                  ~(Lstat(fs, GetPath(LegacyNames[i])) /\ fs[GetPath(LegacyNames[i])].kind = "symlink"))
                 => (fs' = fs /\ registry'.Plugins = registry.Plugins /\ registry'.Active = registry.Active)
          /\ \A i \in 1..Len(LegacyNames) :
                 LET vmid == LegacyNames[i]
                 IN  IF MigratableEntry(fs, vmid) THEN MigratedAs(fs, fs', registry', vmid)
                     ELSE (Lstat(fs, GetPath(vmid)) /\ fs[GetPath(vmid)].kind # "symlink")
                              => Binding(fs', registry', vmid) = Binding(fs, registry, vmid)]_vars

\* C29: MigrateFromLegacy gives legacy entries with different names
\* different (org, name, version) keys, so that after a migration
\* GetManifest of each migrated entry's package returns that entry's own
\* identifier (no entry's manifest is overwritten by a later one).
C29_MigrateKeepsEntriesApart ==
    [][(last'.op = "Migrate" /\ last'.err = "nil") =>
          \A i, j \in 1..Len(LegacyNames) :
              (MigratableEntry(fs, LegacyNames[i]) /\ MigratableEntry(fs, LegacyNames[j]) /\ i # j) =>
                  /\ PackagePath("legacy", LegacyName(LegacyNames[i]), "v0.0.0")
                         # PackagePath("legacy", LegacyName(LegacyNames[j]), "v0.0.0")
                  /\ GetManifest(fs', "legacy", LegacyName(LegacyNames[i]), "v0.0.0").manifest.VMID
                         = LegacyNames[i]]_vars

\* C26: every value "org/name@version" of registry.Active names a
\* version that is contained in registry.Plugins["org/name"] and whose
\* package directory and manifest exist, in every state reached by
\* Install, Link, Activate and Uninstall.
C26_ActiveNamesInstalledVersion ==
    \A id \in DOMAIN registry.Active :
        LET ref == SplitPkgRef(registry.Active[id])
            parts == SplitPkgKey(ref[1])
        IN  /\ ref # <<>>
            /\ Len(parts) = 2
            /\ contains(MapGet(registry.Plugins, ref[1]), ref[2])
            /\ IsDir(fs, PackagePath(parts[1], parts[2], ref[2]))
            /\ GetManifest(fs, parts[1], parts[2], ref[2]).err = "nil"

\* C28: whenever packages/<org>/<name>/latest exists after a completed
\* operation, it names a version that is contained in
\* registry.Plugins["org/name"] and whose directory exists.
C28_LatestNamesInstalledVersion ==
    \A o \in Orgs, n \in Names :
        Lstat(fs, LatestPath(o, n)) =>
            LET version == fs[LatestPath(o, n)].target[1]
            IN  /\ contains(MapGet(registry.Plugins, PkgKey(o, n)), version)
                /\ IsDir(fs, PackagePath(o, n, version))

\* C27: when Install or Link returns an error, at whatever step, the
\* manager's in-memory registry.Plugins and registry.Active are what they
\* were before the call.
C27_FailedInstallLeavesRegistry ==
    [][(last'.op \in {"Install", "Link"} /\ last'.err # "nil") =>
          /\ registry'.Plugins = registry.Plugins
          /\ registry'.Active = registry.Active]_vars

====
